---------------------------- MODULE Spec2Model ----------------------------
(***************************************************************************)
(* A model of zfsbackup's backup engine (package zfs): the orchestrator    *)
(* RunBackup / backupSource / backupFilesystem, the snapshot matcher, the  *)
(* retention cleanup and the process-pipeline executor.                    *)
(*                                                                         *)
(* A Go string is a sequence of tokens: a path component, a separator      *)
(* ("/", "@", "\t", "\n", " "), a snapshot label, a decimal digit or a     *)
(* word of a command line.  The string functions the code uses (Split,     *)
(* HasPrefix, TrimSuffix, TrimRight, TrimSpace, Sprintf, ParseInt,         *)
(* FormatInt, time.Format, time.Parse) are computed on these sequences.    *)
(* An argv vector is a sequence of strings.                                *)
(***************************************************************************)
EXTENDS Integers, Sequences, FiniteSets, TLC

VARIABLES
    b,            \* the session configuration (*Backup)
    sources,      \* the argument of RunBackup
    world,        \* the external snapshot subsystem: datasets and their snapshots
    now,          \* the wall clock, in seconds
    calls,        \* history: the argv of every process started, in start order
    faults,       \* how many more calls may fail that could have succeeded
    pc,           \* the position of the single thread of control
    caller,       \* the function that was entered: RunBackup, or a function on its own
    frame,        \* locals of RunBackup / backupSource / backupFilesystem
    match,        \* locals of getLatestMatchingSnapshot
    clean,        \* locals of cleanSnapshots
    pipe,         \* locals of pipeline / execPipeline
    result,       \* what the entered function returned
    slog,         \* history: the "dry run:" lines logged, per call of RunBackup
    heap,         \* the arrays behind the slices of the session and of built commands
    kernel        \* the stage processes of a pipeline and the pipes between them

vars ==
    <<b, sources, world, now, calls, faults, pc, caller, frame, match, clean, pipe, result,
      slog, heap, kernel>>

(***************************************************************************)
(* Bounds of the model.                                                    *)
(***************************************************************************)
MaxSources == 2
MaxSnaps == 3
MaxStages == 3
MaxFaults == 1

(***************************************************************************)
(* Strings.                                                                *)
(***************************************************************************)
Str(w) == <<w>>
EmptyStr == <<>>

Min(x, y) == IF x <= y THEN x ELSE y

HasPrefix(s, p) == Len(s) >= Len(p) /\ SubSeq(s, 1, Len(p)) = p

HasSuffix(s, p) == Len(s) >= Len(p) /\ SubSeq(s, Len(s) - Len(p) + 1, Len(s)) = p

TrimSuffix(s, p) == IF HasSuffix(s, p) THEN SubSeq(s, 1, Len(s) - Len(p)) ELSE s

Contains(list, x) == \E k \in 1..Len(list) : list[k] = x

\* strings.Split(s, sep) for a one-token separator.
RECURSIVE Split(_, _)
Split(s, sep) ==
    IF \A k \in 1..Len(s) : s[k] # sep
    THEN <<s>>
    ELSE LET k == CHOOSE n \in 1..Len(s) : s[n] = sep /\ \A m \in 1..(n - 1) : s[m] # sep
         IN  <<SubSeq(s, 1, k - 1)>> \o Split(SubSeq(s, k + 1, Len(s)), sep)

\* strings.TrimRight(s, "\n")
RECURSIVE TrimRightNL(_)
TrimRightNL(s) ==
    IF Len(s) > 0 /\ s[Len(s)] = "\n" THEN TrimRightNL(SubSeq(s, 1, Len(s) - 1)) ELSE s

IsSpace(t) == t \in {" ", "\n", "\t"}

RECURSIVE TrimLeftSpace(_)
TrimLeftSpace(s) ==
    IF Len(s) > 0 /\ IsSpace(s[1]) THEN TrimLeftSpace(Tail(s)) ELSE s

RECURSIVE TrimRightSpace(_)
TrimRightSpace(s) ==
    IF Len(s) > 0 /\ IsSpace(s[Len(s)]) THEN TrimRightSpace(SubSeq(s, 1, Len(s) - 1)) ELSE s

\* strings.TrimSpace
TrimSpace(s) == TrimLeftSpace(TrimRightSpace(s))

\* The captured standard output as lines (execCmd, execPipeline).
StdoutLines(buf) == IF Len(buf) > 0 THEN Split(TrimRightNL(buf), "\n") ELSE <<>>

Digits == <<"0", "1", "2", "3", "4", "5", "6", "7", "8", "9">>

IsDigit(t) == \E d \in 1..10 : Digits[d] = t

DigitVal(t) == (CHOOSE d \in 1..10 : Digits[d] = t) - 1

RECURSIVE DecimalVal(_)
DecimalVal(s) ==
    IF Len(s) = 0 THEN 0 ELSE 10 * DecimalVal(SubSeq(s, 1, Len(s) - 1)) + DigitVal(s[Len(s)])

\* strconv.ParseInt(s, 10, 64): a value, or an error.
ParseInt(s) ==
    IF Len(s) > 0 /\ \A k \in 1..Len(s) : IsDigit(s[k])
    THEN [ok |-> TRUE, val |-> DecimalVal(s)]
    ELSE [ok |-> FALSE, val |-> 0]

\* strconv.FormatInt(n, 10), n >= 0
RECURSIVE FormatInt(_)
FormatInt(n) ==
    IF n < 10 THEN <<Digits[n + 1]>> ELSE FormatInt(n \div 10) \o <<Digits[(n % 10) + 1]>>

kB == 1024

\* fmt.Sprintf("%.2f %s", float64(size)/float64(unit), suffix)
format(size, unit, suffix) ==
    LET hundredths == (200 * size + unit) \div (2 * unit)
        frac == hundredths % 100
    IN  FormatInt(hundredths \div 100) \o <<".">>
            \o (IF frac < 10 THEN <<"0">> ELSE <<>>) \o FormatInt(frac) \o <<" ", suffix>>

\* util.HumanBytes, for the sizes of the model, which stay below mB.
HumanBytes(size) ==
    IF size >= kB THEN format(size, kB, "kiB") ELSE FormatInt(size) \o <<" ", "B">>

(***************************************************************************)
(* Time: the layout "2006-01-02T15:04:05".                                 *)
(***************************************************************************)
\* time.Format of the clock values of the model, one per second.
TimeLabels ==
    << "2024-01-01T00:00:01", "2024-01-01T00:00:02", "2024-01-01T00:00:03",
       "2024-01-01T00:00:04", "2024-01-01T00:00:05", "2024-01-01T00:00:06",
       "2024-01-01T00:00:07" >>

MaxTime == Len(TimeLabels)

TimeFormat(t) == Str(TimeLabels[t])

\* Labels somebody else gave: free text, a date without a time, and a timestamp
\* with a fractional second.
ManualLabel == Str("manual")
DateLabel == Str("2024-01-01")
FractionLabel == <<"2024-01-01T00:00:01", ".5">>

\* time.Parse(layout, s) succeeds: s is a timestamp in the layout, optionally
\* followed by a fractional second (which time.Parse accepts after the seconds
\* field although the layout has none).
TimeParseOK(s) ==
    /\ Len(s) \in {1, 2}
    /\ \E t \in 1..MaxTime : s[1] = TimeLabels[t]
    /\ Len(s) = 2 => s[2] = ".5"

(***************************************************************************)
(* Snapshot names.                                                         *)
(***************************************************************************)
\* fmt.Sprintf("%s@%s", vol, snap)
SnapshotName(vol, snap) == vol \o <<"@">> \o snap

\* fmt.Sprintf("%s/%s", target, fs)
JoinPath(target, fs) == target \o <<"/">> \o fs

splitSnapshot(fullName) ==
    LET parts == Split(fullName, "@")
    IN  IF Len(parts) = 2
        THEN [vol |-> parts[1], snap |-> parts[2]]
        ELSE [vol |-> fullName, snap |-> EmptyStr]

\* isBackupSnapshot, had it stopped at the shape vol@label.
isBackupSnapshotAny(snapshotName) == Len(Split(snapshotName, "@")) = 2

isBackupSnapshot(snapshotName) ==
    LET parts == Split(snapshotName, "@")
    IN  IF Len(parts) # 2 THEN FALSE ELSE TimeParseOK(parts[2])


(***************************************************************************)
(* Sources.                                                                *)
(***************************************************************************)
\* The recursion marker "/...", character by character.
Marker == <<"/", ".", ".", ".">>

\* Source.String
String(src) == IF src.recurse THEN src.vol \o Marker ELSE src.vol

\* strings.TrimSuffix, had it been applied for as long as the marker is there.
RECURSIVE TrimAll(_, _)
TrimAll(s, p) == IF HasSuffix(s, p) /\ Len(p) > 0 THEN TrimAll(TrimSuffix(s, p), p) ELSE s

\* ParseSource, had it stripped every marker at the end.
ParseSourceAll(s) ==
    LET recurse == HasSuffix(s, Marker)
        vol == TrimAll(s, Marker)
    IN  IF vol = EmptyStr
        THEN [src |-> [vol |-> EmptyStr, recurse |-> FALSE],
              err |-> [op |-> "", stderr |-> EmptyStr, err |-> <<"source volume cannot be empty">>]]
        ELSE [src |-> [vol |-> vol, recurse |-> recurse],
              err |-> [op |-> "", stderr |-> EmptyStr, err |-> EmptyStr]]

\* ParseSource(s): the source and the error it returns.
ParseSource(s) ==
    LET recurse == HasSuffix(s, Marker)
        vol == TrimSuffix(s, Marker)
    IN  IF vol = EmptyStr
        THEN [src |-> [vol |-> EmptyStr, recurse |-> FALSE],
              err |-> [op |-> "", stderr |-> EmptyStr, err |-> <<"source volume cannot be empty">>]]
        ELSE [src |-> [vol |-> vol, recurse |-> recurse],
              err |-> [op |-> "", stderr |-> EmptyStr, err |-> EmptyStr]]

(***************************************************************************)
(* The session configuration.                                              *)
(***************************************************************************)
Zfs == Str("zfs")
DefaultCmd == <<Zfs>>
SshCmd == <<Str("ssh"), Str("host"), Zfs>>

\* The error a command-running function hands to its caller.
NoError == [op |-> "", stderr |-> EmptyStr, err |-> EmptyStr]

wrapCmdError(operation, stderr, err) ==
    [op |-> operation, stderr |-> stderr, err |-> err]

PlainError(text) == [op |-> "", stderr |-> EmptyStr, err |-> Str(text)]

\* The options of NewBackup.
WithDryRunOption == [opt |-> "WithDryRunOption", cmd |-> <<>>]
WithSourceCommandOption(cmd) == [opt |-> "WithSourceCommandOption", cmd |-> cmd]
WithTargetCommandOption(cmd) == [opt |-> "WithTargetCommandOption", cmd |-> cmd]

\* opt(b)
ApplyOption(session, o) ==
    IF o.opt = "WithDryRunOption" THEN [session EXCEPT !.dryrun = TRUE]
    ELSE IF o.opt = "WithSourceCommandOption" THEN [session EXCEPT !.sourceCmd = o.cmd]
    ELSE [session EXCEPT !.targetCmd = o.cmd]

\* "for _, opt := range opts"
RECURSIVE ApplyOptions(_, _)
ApplyOptions(session, opts) ==
    IF Len(opts) = 0 THEN session
    ELSE ApplyOptions(ApplyOption(session, Head(opts)), Tail(opts))

\* The nil *Backup.
NilBackup == [nil |-> TRUE]

\* NewBackup, had it not looked at the source command.
NewBackupAnySource(target, opts) ==
    LET made == ApplyOptions([target |-> target, dryrun |-> FALSE,
                              sourceCmd |-> DefaultCmd, targetCmd |-> DefaultCmd], opts)
    IN  IF target = <<>>
        THEN [b |-> NilBackup, err |-> PlainError("target filesystem cannot be empty")]
        ELSE IF Len(made.targetCmd) = 0
        THEN [b |-> NilBackup, err |-> PlainError("target command cannot be empty")]
        ELSE [b |-> made, err |-> NoError]

\* NewBackup(target, opts...): the session and the error it returns.
NewBackup(target, opts) ==
    LET made == ApplyOptions([target |-> target, dryrun |-> FALSE,
                              sourceCmd |-> DefaultCmd, targetCmd |-> DefaultCmd], opts)
    IN  IF target = <<>>
        THEN [b |-> NilBackup, err |-> PlainError("target filesystem cannot be empty")]
        ELSE IF Len(made.sourceCmd) = 0
        THEN [b |-> NilBackup, err |-> PlainError("source command cannot be empty")]
        ELSE IF Len(made.targetCmd) = 0
        THEN [b |-> NilBackup, err |-> PlainError("target command cannot be empty")]
        ELSE [b |-> made, err |-> NoError]


(***************************************************************************)
(* Slices: an array of the heap, a length and a capacity.                  *)
(***************************************************************************)
NilSlice == [arr |-> 0, len |-> 0, cap |-> 0]

\* Where the memory behind the slices is not followed.
NoHeap == [arrays |-> <<>>, sourceCmd |-> NilSlice, targetCmd |-> NilSlice, built |-> <<>>]

(***************************************************************************)
(* Processes and pipes.  proc is the state of each stage process, hold the *)
(* bytes a stage has in hand to write, fill the bytes in the pipe from     *)
(* stage k to stage k + 1, and parentRead the pipes whose read end this    *)
(* process still holds open.                                               *)
(***************************************************************************)
NoKernel == [proc |-> <<>>, hold |-> <<>>, fill |-> <<>>, parentRead |-> {}]

\* The elements of slice s.
Contents(h, s) == IF s.arr = 0 THEN <<>> ELSE SubSeq(h.arrays[s.arr], 1, s.len)

\* A new array holding elems and spare zero elements after them.
Allocate(h, elems, spare) ==
    [heap |-> [h EXCEPT !.arrays = Append(@, elems \o [k \in 1..spare |-> EmptyStr])],
     slice |-> [arr |-> Len(h.arrays) + 1, len |-> Len(elems), cap |-> Len(elems) + spare]]

\* The built-in append(s, args...): in place while the capacity lasts, into
\* a new array otherwise.
appendSlice(h, s, args) ==
    IF s.len + Len(args) <= s.cap /\ s.arr # 0
    THEN [heap |-> [h EXCEPT !.arrays[s.arr] =
                       [k \in 1..Len(@) |->
                           IF k > s.len /\ k <= s.len + Len(args) THEN args[k - s.len] ELSE @[k]]],
          slice |-> [s EXCEPT !.len = @ + Len(args)]]
    ELSE Allocate(h, Contents(h, s) \o args, 0)

\* buildCommand, had it taken the stored prefix itself for base.
CloneAlias(h, s, spare) == [heap |-> h, slice |-> s]

\* slices.Clone(s): the elements in an array of their own, whose capacity
\* may be larger than its length.
Clone(h, s, spare) == Allocate(h, Contents(h, s), spare)

isTargetVolume(vol) ==
    LET target == TrimSuffix(b.target, <<"/">>)
    IN  HasPrefix(vol, target \o <<"/">>)

buildCommand(isTarget, args) ==
    LET base == IF isTarget THEN b.targetCmd ELSE b.sourceCmd
    IN  base \o args

(***************************************************************************)
(* The datasets of the model: a source pool with one child filesystem, and *)
(* their counterparts under the target root.                               *)
(***************************************************************************)
TargetRoot == Str("b")
Pool == Str("p")
Child == <<"p", "/", "a">>
SourceDatasets == {Pool, Child}
TargetDatasets == {JoinPath(TargetRoot, d) : d \in SourceDatasets}
AllDatasets == SourceDatasets \cup TargetDatasets

\* The session of the runs below: the default source command, a target
\* command that reaches another host.
Session(dryrun) ==
    NewBackup(TargetRoot, (IF dryrun THEN <<WithDryRunOption>> ELSE <<>>)
                              \o <<WithTargetCommandOption(SshCmd)>>).b

PvPath == <<"/", "usr", "/", "bin", "/", "pv">>

\* The datasets of w below ds, ds excluded.
Descendants(w, ds) == {d \in w.exists : HasPrefix(d, ds \o <<"/">>)}

\* A set of datasets as a list, parents before children.
RECURSIVE ListOf(_)
ListOf(S) ==
    IF S = {} THEN <<>>
    ELSE LET d == CHOOSE x \in S : \A y \in S : Len(x) <= Len(y)
         IN  <<d>> \o ListOf(S \ {d})

RECURSIVE Lines2Buf(_)
Lines2Buf(lines) ==
    IF Len(lines) = 0 THEN <<>> ELSE Head(lines) \o <<"\n">> \o Lines2Buf(Tail(lines))

HasSnapshot(w, vol, label) == vol \in w.exists /\ Contains(w.snaps[vol], label)

RECURSIVE Remove(_, _)
Remove(list, x) ==
    IF Len(list) = 0 THEN <<>>
    ELSE IF Head(list) = x THEN Remove(Tail(list), x)
    ELSE <<Head(list)>> \o Remove(Tail(list), x)

(***************************************************************************)
(* The external snapshot subsystem, as the command lines reach it.         *)
(***************************************************************************)
\* The words of argv after the command prefix, which ends with "zfs".
CmdArgs(argv) ==
    IF \A k \in 1..Len(argv) : argv[k] # Zfs THEN <<>>
    ELSE LET k == CHOOSE n \in 1..Len(argv) : argv[n] = Zfs /\ \A m \in 1..(n - 1) : argv[m] # Zfs
         IN  SubSeq(argv, k + 1, Len(argv))

Op(argv) == IF Len(CmdArgs(argv)) = 0 THEN EmptyStr ELSE CmdArgs(argv)[1]

Flag(argv, f) == Contains(CmdArgs(argv), Str(f))

LastArg(argv) == argv[Len(argv)]

ArgAfter(argv, f) ==
    LET a == CmdArgs(argv)
        k == CHOOSE n \in 1..(Len(a) - 1) : a[n] = Str(f)
    IN  a[k + 1]

\* "zfs snapshot [-r] vol@label"
ZfsSnapshot(w, argv) ==
    LET s == splitSnapshot(LastArg(argv))
        on == IF Flag(argv, "-r") THEN {s.vol} \cup Descendants(w, s.vol) ELSE {s.vol}
    IN  IF s.vol \in w.exists /\ s.snap # EmptyStr /\ \A d \in on : ~HasSnapshot(w, d, s.snap)
        THEN {[w EXCEPT !.snaps = [d \in DOMAIN w.snaps |->
                    IF d \in on THEN Append(w.snaps[d], s.snap) ELSE w.snaps[d]]]}
        ELSE {}

\* "zfs destroy [-r] vol@label"; the options precede the snapshot name.
ZfsDestroy(w, argv) ==
    LET s == splitSnapshot(LastArg(argv))
        on == IF Flag(argv, "-r") THEN {s.vol} \cup Descendants(w, s.vol) ELSE {s.vol}
    IN  IF HasSnapshot(w, s.vol, s.snap)
        THEN {[w EXCEPT !.snaps = [d \in DOMAIN w.snaps |->
                    IF d \in on THEN Remove(w.snaps[d], s.snap) ELSE w.snaps[d]]]}
        ELSE {}

\* "zfs list -H -o name -t snapshot -s creation vol": the snapshots of vol, oldest first.
ZfsListSnapshots(w, argv) ==
    LET vol == LastArg(argv)
    IN  IF vol \in w.exists
        THEN {Lines2Buf([k \in 1..Len(w.snaps[vol]) |-> SnapshotName(vol, w.snaps[vol][k])])}
        ELSE {}

\* "zfs list -H [-o name] [-r] -t filesystem,volume vol"
ZfsListFilesystems(w, argv) ==
    LET vol == LastArg(argv)
    IN  IF vol \in w.exists
        THEN IF Flag(argv, "-r")
             THEN {Lines2Buf(<<vol>> \o ListOf(Descendants(w, vol)))}
             ELSE {Lines2Buf(<<vol>>)}
        ELSE {}

\* What "zfs send -n -P" may print: a size line with a positive size, a size of
\* zero, a size that is no integer, or no size line at all.
FullLine(snap) == <<"full", "\t">> \o snap
SizeLine(digits) == <<"size", "\t">> \o digits
EstimateSizes == {<<"4", "2">>, <<"0">>, <<"1", "K">>}

SendPossible(w, argv) ==
    LET e == splitSnapshot(LastArg(argv))
    IN  /\ HasSnapshot(w, e.vol, e.snap)
        /\ Flag(argv, "-i") =>
              LET s == splitSnapshot(ArgAfter(argv, "-i"))
                  snaps == w.snaps[e.vol]
              IN  /\ s.vol = e.vol
                  /\ \E i, j \in 1..Len(snaps) :
                        i < j /\ snaps[i] = s.snap /\ snaps[j] = e.snap

ZfsSendEstimate(w, argv) ==
    IF SendPossible(w, argv)
    THEN {Lines2Buf(<<FullLine(LastArg(argv)), SizeLine(d)>>) : d \in EstimateSizes}
            \cup {Lines2Buf(<<FullLine(LastArg(argv))>>)}
    ELSE {}

\* "zfs receive -F target" of a complete stream "send [-i base] fs@label": the
\* target holds the snapshot afterwards, rolled back to the base if there is one.
ZfsReceive(w, recvArgv, sendArgv) ==
    LET target == LastArg(recvArgv)
        e == splitSnapshot(LastArg(sendArgv))
        base == IF Flag(sendArgv, "-i") THEN splitSnapshot(ArgAfter(sendArgv, "-i")).snap
                ELSE EmptyStr
        old == w.snaps[target]
        k == IF base # EmptyStr /\ Contains(old, base)
             THEN CHOOSE n \in 1..Len(old) : old[n] = base
             ELSE 0
        parent == SubSeq(target, 1, Len(target) - 2)
    IN  IF /\ target \in DOMAIN w.snaps
           /\ parent = TargetRoot \/ parent \in w.exists
           /\ base # EmptyStr => HasSnapshot(w, target, base)
        THEN {[w EXCEPT !.exists = @ \cup {target},
                        !.snaps[target] = Append(SubSeq(old, 1, k), e.snap)]}
        ELSE {}

\* What a command other than zfs may write to its standard output.
StdoutBufs == {<<>>, <<"l1", "\n", "l2", "\n">>}

FailText == <<"cannot", " ", "open", "\n">>
ExitStatus == Str("exit status 1")

\* The ways a command can fail: with or without a diagnostic, changing nothing.
ExecFailures(w, fault) ==
    {[err |-> ExitStatus, stdout |-> <<>>, stderr |-> e, world |-> w, fault |-> fault] :
        e \in {<<>>, FailText}}

ExecOk(out, w) ==
    [err |-> EmptyStr, stdout |-> out, stderr |-> <<>>, world |-> w, fault |-> FALSE]

\* The ways one command, run to completion on its own, can succeed.
ExecSuccesses(w, argv) ==
    LET op == Op(argv)
    IN  (IF op = Str("snapshot") THEN {ExecOk(<<>>, w2) : w2 \in ZfsSnapshot(w, argv)}
         ELSE IF op = Str("destroy") THEN {ExecOk(<<>>, w2) : w2 \in ZfsDestroy(w, argv)}
         ELSE IF op = Str("list") /\ ArgAfter(argv, "-t") = Str("snapshot")
              THEN {ExecOk(o, w) : o \in ZfsListSnapshots(w, argv)}
         ELSE IF op = Str("list")
              THEN {ExecOk(o, w) : o \in ZfsListFilesystems(w, argv)}
         ELSE IF op = Str("send") /\ Flag(argv, "-n")
              THEN {ExecOk(o, w) : o \in ZfsSendEstimate(w, argv)}
         ELSE IF Len(CmdArgs(argv)) = 0
              THEN {ExecOk(o, w) : o \in StdoutBufs}
         ELSE {})

\* Every way the command can end: it fails when it cannot succeed, and it may
\* fail although it could succeed while faults are left.
ExecOutcomes(w, argv) ==
    LET good == ExecSuccesses(w, argv)
    IN  good \cup (IF good = {} THEN ExecFailures(w, FALSE)
                   ELSE IF faults > 0 THEN ExecFailures(w, TRUE)
                   ELSE {})

\* execCmd: what the caller gets for one outcome of the command.
execCmd(o) ==
    LET stdoutLines == StdoutLines(o.stdout)
        stderrStr == TrimSpace(o.stderr)
    IN  IF o.err = EmptyStr
        THEN [lines |-> stdoutLines, stderr |-> EmptyStr, err |-> EmptyStr]
        ELSE [lines |-> stdoutLines,
              stderr |-> IF stderrStr = EmptyStr THEN o.err ELSE stderrStr,
              err |-> o.err]


\* What one invocation gives its caller: the triple of execCmd, the world after
\* it, and whether a process was launched.
Executed(w, argv) ==
    {[r |-> execCmd(o), world |-> o.world, started |-> TRUE, fault |-> o.fault] :
        o \in ExecOutcomes(w, argv)}

Skipped(w) ==
    {[r |-> [lines |-> <<>>, stderr |-> EmptyStr, err |-> EmptyStr],
      world |-> w, started |-> FALSE, fault |-> FALSE]}

\* query, had it honoured the dry-run flag as run does.
queryDryRun(w, args) == IF b.dryrun THEN Skipped(w) ELSE Executed(w, args)

\* query runs a read-only command; it always executes.
query(w, args) == Executed(w, args)

\* run, had it lost its dry-run check.
runAlways(w, args) == Executed(w, args)

\* run executes a write command; skipped in dry-run mode.
run(w, args) == IF b.dryrun THEN Skipped(w) ELSE Executed(w, args)

Log(o, argv) == IF o.started THEN Append(calls, argv) ELSE calls

\* slog.Info of a "dry run:" line, during the current call of RunBackup.
Info(line) == [slog EXCEPT ![Len(slog)] = Append(@, line)]

\* run: slog.Info("dry run: skip", "args", args)
runInfo(args) ==
    IF b.dryrun THEN Info([msg |-> "dry run: skip", args |-> args]) ELSE slog

\* pipeline: slog.Info("dry run: skip", "cmds", cmds)
pipelineInfo(cmds) ==
    IF b.dryrun THEN Info([msg |-> "dry run: skip", cmds |-> cmds]) ELSE slog

Spend(o) == IF o.fault THEN faults - 1 ELSE faults

(***************************************************************************)
(* Inventory.                                                              *)
(***************************************************************************)
ListSnapshotsArgs(vol) ==
    buildCommand(isTargetVolume(vol),
                 <<Str("list"), Str("-H"), Str("-o"), Str("name"), Str("-t"),
                   Str("snapshot"), Str("-s"), Str("creation"), vol>>)

ListFilesystemsArgs(vol) ==
    buildCommand(FALSE,
                 <<Str("list"), Str("-H"), Str("-o"), Str("name"), Str("-r"), Str("-t"),
                   Str("filesystem,volume"), vol>>)

DatasetExistsArgs(vol) ==
    buildCommand(isTargetVolume(vol),
                 <<Str("list"), Str("-H"), Str("-t"), Str("filesystem,volume"), vol>>)

\* listSnapshots(vol) for one outcome o of its query.
listSnapshots(o) ==
    IF o.r.err # EmptyStr
    THEN [snaps |-> <<>>, err |-> wrapCmdError("listing snapshots", o.r.stderr, o.r.err)]
    ELSE [snaps |-> o.r.lines, err |-> NoError]

(***************************************************************************)
(* The matcher: the loop of getLatestMatchingSnapshot, newest first.       *)
(***************************************************************************)
NoMatch == PlainError("no matching snapshot found")

RECURSIVE MatchFrom(_, _, _, _)
MatchFrom(sourceSnaps, targetSnaps, target, i) ==
    IF i < 1 THEN [snap |-> EmptyStr, err |-> NoMatch]
    ELSE LET snapPart == splitSnapshot(sourceSnaps[i]).snap
             targetseek == SnapshotName(target, snapPart)
         IN  IF snapPart = EmptyStr
             THEN MatchFrom(sourceSnaps, targetSnaps, target, i - 1)
             ELSE IF Contains(targetSnaps, targetseek)
             THEN [snap |-> sourceSnaps[i], err |-> NoError]
             ELSE MatchFrom(sourceSnaps, targetSnaps, target, i - 1)

\* The scan of getLatestMatchingSnapshot, had it run from the oldest snapshot up.
RECURSIVE MatchUp(_, _, _, _)
MatchUp(sourceSnaps, targetSnaps, target, i) ==
    IF i > Len(sourceSnaps) THEN [snap |-> EmptyStr, err |-> NoMatch]
    ELSE LET snapPart == splitSnapshot(sourceSnaps[i]).snap
         IN  IF snapPart # EmptyStr /\ Contains(targetSnaps, SnapshotName(target, snapPart))
             THEN [snap |-> sourceSnaps[i], err |-> NoError]
             ELSE MatchUp(sourceSnaps, targetSnaps, target, i + 1)

OldestMatching(sourceSnaps, targetSnaps, target) ==
    MatchUp(sourceSnaps, targetSnaps, target, 1)

LatestMatching(sourceSnaps, targetSnaps, target) ==
    MatchFrom(sourceSnaps, targetSnaps, target, Len(sourceSnaps))

(***************************************************************************)
(* The size estimate: the parse of the output of "send -n -P".             *)
(***************************************************************************)
RECURSIVE ParseSize(_)
ParseSize(lines) ==
    IF Len(lines) = 0 THEN [size |-> 0, err |-> NoError]
    ELSE LET parts == Split(TrimSpace(Head(lines)), "\t")
         IN  IF parts[1] = Str("size")
             THEN IF Len(parts) < 2
                  THEN [size |-> 0, err |-> PlainError("panic: index out of range")]
                  ELSE IF ParseInt(parts[2]).ok
                  THEN [size |-> ParseInt(parts[2]).val, err |-> NoError]
                  ELSE [size |-> 0, err |-> PlainError("size parse error")]
             ELSE ParseSize(Tail(lines))

EstimateArgs(startSnap, endSnap) ==
    IF startSnap # EmptyStr
    THEN buildCommand(FALSE, <<Str("send"), Str("-n"), Str("-P"), Str("-i"), startSnap, endSnap>>)
    ELSE buildCommand(FALSE, <<Str("send"), Str("-n"), Str("-P"), endSnap>>)

\* dryrunSingleBackup, had it taken a size of zero for a size.
dryrunSingleBackupZeroOk(o) ==
    IF o.r.err # EmptyStr
    THEN [size |-> 0, err |-> wrapCmdError("estimating backup size", o.r.stderr, o.r.err)]
    ELSE LET p == ParseSize(o.r.lines)
         IN  IF p.err # NoError THEN [size |-> 0, err |-> p.err]
             ELSE [size |-> p.size, err |-> NoError]

\* dryrunSingleBackup for one outcome o of its query.
dryrunSingleBackup(o) ==
    IF o.r.err # EmptyStr
    THEN [size |-> 0, err |-> wrapCmdError("estimating backup size", o.r.stderr, o.r.err)]
    ELSE LET p == ParseSize(o.r.lines)
         IN  IF p.err # NoError THEN [size |-> 0, err |-> p.err]
             ELSE IF p.size = 0 THEN [size |-> 0, err |-> PlainError("backup size 0")]
             ELSE [size |-> p.size, err |-> NoError]

(***************************************************************************)
(* The locals of the functions, before they are entered.                   *)
(***************************************************************************)
Frame0 ==
    [i |-> 1, snapName |-> EmptyStr, filesystems |-> <<>>, j |-> 1,
     startSnap |-> EmptyStr, size |-> 0]

Match0 == [source |-> EmptyStr, target |-> EmptyStr, sourceSnaps |-> <<>>]

\* deleted is history: the snapshots deleteSnapshot was called with.
Clean0 ==
    [vol |-> EmptyStr, retainArg |-> 0, retain |-> 0, recurse |-> FALSE,
     snaps |-> <<>>, i |-> 0, saved |-> 0, deleted |-> <<>>]

Pipe0 ==
    [allCmds |-> <<>>, cmds |-> <<>>, i |-> 0, errs |-> <<>>,
     stdoutBuf |-> <<>>, stderrBuf |-> <<>>]

Result0 == [val |-> <<>>, err |-> NoError]

\* The number of snapshots cleanup keeps (backupSource).
Retain == 2

Src == sources[frame.i]
Fs == frame.filesystems[frame.j]
FsSnap == SnapshotName(Fs, frame.snapName)
TargetVol == JoinPath(b.target, Fs)

(***************************************************************************)
(* Returns.                                                                *)
(***************************************************************************)
\* The entered function returns: control is back with whoever called it.
Returns(val, err) == pc' = "done" /\ result' = [val |-> val, err |-> err]

\* The loop of backupSource, had it gone on to the next filesystem after an error.
backupFilesystemReturnsGoesOn(err) ==
    /\ pc' = "backupFilesystem"
    /\ frame' = [frame EXCEPT !.j = @ + 1, !.startSnap = EmptyStr, !.size = 0]
    /\ result' = result

\* backupFilesystem returns err to the loop of backupSource, whose error
\* RunBackup returns at once.
backupFilesystemReturns(err) ==
    IF err = NoError
    THEN /\ pc' = "backupFilesystem"
         /\ frame' = [frame EXCEPT !.j = @ + 1, !.startSnap = EmptyStr, !.size = 0]
         /\ result' = result
    ELSE /\ Returns(<<>>, err)
         /\ frame' = frame

\* backupFilesystem, had it returned the error of getLatestMatchingSnapshot.
getLatestMatchingSnapshotReturnsFails(snap, err) ==
    IF caller # "RunBackup"
    THEN /\ Returns(snap, err)
         /\ frame' = frame
    ELSE IF err # NoError
    THEN backupFilesystemReturns(err)
    ELSE /\ pc' = "dryrunSingleBackup"
         /\ frame' = [frame EXCEPT !.startSnap = snap]
         /\ result' = result

\* getLatestMatchingSnapshot returns (snap, err) to backupFilesystem, which
\* goes on with a full backup on an error.
getLatestMatchingSnapshotReturns(snap, err) ==
    IF caller # "RunBackup"
    THEN /\ Returns(snap, err)
         /\ frame' = frame
    ELSE /\ pc' = "dryrunSingleBackup"
         /\ frame' = [frame EXCEPT !.startSnap = snap]
         /\ result' = result

\* cleanSnapshots, had it gone on with the loop after a failed deleteSnapshot.
cleanSnapshotsReturnsSkips(err, c) ==
    IF err.op = "deleting snapshot"
    THEN /\ clean' = [c EXCEPT !.i = @ - 1]
         /\ UNCHANGED <<pc, frame, result>>
    ELSE IF caller # "RunBackup"
    THEN /\ Returns(<<>>, err)
         /\ frame' = frame
         /\ clean' = c
    ELSE /\ clean' = Clean0
         /\ IF err = NoError
            THEN /\ pc' = "RunBackup"
                 /\ frame' = [Frame0 EXCEPT !.i = frame.i + 1]
                 /\ result' = result
            ELSE /\ Returns(<<>>, err)
                 /\ frame' = frame

\* The loop of RunBackup, had it kept the error and gone on to the next source.
cleanSnapshotsReturnsGoesOn(err, c) ==
    IF caller # "RunBackup"
    THEN /\ Returns(<<>>, err)
         /\ frame' = frame
         /\ clean' = c
    ELSE /\ clean' = Clean0
         /\ pc' = "RunBackup"
         /\ frame' = [Frame0 EXCEPT !.i = frame.i + 1]
         /\ result' = [val |-> <<>>, err |-> IF result.err # NoError THEN result.err ELSE err]

\* cleanSnapshots returns err to backupSource, which returns it to the loop of
\* RunBackup.
cleanSnapshotsReturns(err, c) ==
    IF caller # "RunBackup"
    THEN /\ Returns(<<>>, err)
         /\ frame' = frame
         /\ clean' = c
    ELSE /\ clean' = Clean0
         /\ IF err = NoError
            THEN /\ pc' = "RunBackup"
                 /\ frame' = [Frame0 EXCEPT !.i = frame.i + 1]
                 /\ result' = result
            ELSE /\ Returns(<<>>, err)
                 /\ frame' = frame

(***************************************************************************)
(* RunBackup and backupSource.                                             *)
(***************************************************************************)
\* RunBackup: every source is done.
RunBackup ==
    /\ pc = "RunBackup"
    /\ frame.i > Len(sources)
    /\ Returns(<<>>, NoError)
    /\ UNCHANGED <<faults, b, sources, world, now, calls, caller, frame, match, clean, pipe, slog,
                   heap, kernel>>

\* backupSource begins: createSnapshot(src.vol, src.recurse).  The clock has
\* moved on when the next source begins.
createSnapshot ==
    /\ pc = "RunBackup"
    /\ frame.i <= Len(sources)
    /\ LET snapName == TimeFormat(now)
           snap == SnapshotName(Src.vol, snapName)
           args == <<Str("snapshot")>> \o (IF Src.recurse THEN <<Str("-r")>> ELSE <<>>) \o <<snap>>
           cmdArgs == buildCommand(FALSE, args)
       IN  IF b.dryrun
           THEN /\ frame' = [frame EXCEPT !.snapName = snapName]
                /\ pc' = "listFilesystems"
                /\ UNCHANGED <<faults, world, calls, result>>
           ELSE \E o \in run(world, cmdArgs) :
                  /\ world' = o.world
                  /\ calls' = Log(o, cmdArgs)
                  /\ faults' = Spend(o)
                  /\ IF o.r.err # EmptyStr
                     THEN /\ Returns(<<>>, wrapCmdError("creating snapshot", o.r.stderr, o.r.err))
                          /\ frame' = frame
                     ELSE /\ frame' = [frame EXCEPT !.snapName = snapName]
                          /\ pc' = "listFilesystems"
                          /\ result' = result
    /\ slog' = IF b.dryrun
               THEN Info([msg |-> "dry run: would create snapshot",
                          snapshot |-> TimeFormat(now), vol |-> Src.vol,
                          recurse |-> Src.recurse])
               ELSE slog
    /\ now' = Min(now + 1, MaxTime)
    /\ UNCHANGED <<b, sources, caller, match, clean, pipe, heap, kernel>>

\* backupSource: the filesystems of the source.
listFilesystems ==
    /\ pc = "listFilesystems"
    /\ IF Src.recurse
       THEN \E o \in query(world, ListFilesystemsArgs(Src.vol)) :
              /\ calls' = Log(o, ListFilesystemsArgs(Src.vol))
              /\ faults' = Spend(o)
              /\ IF o.r.err # EmptyStr
                 THEN /\ Returns(<<>>, wrapCmdError("listing filesystems", o.r.stderr, o.r.err))
                      /\ frame' = frame
                 ELSE /\ frame' = [frame EXCEPT !.filesystems = o.r.lines, !.j = 1]
                      /\ pc' = "backupFilesystem"
                      /\ result' = result
       ELSE /\ frame' = [frame EXCEPT !.filesystems = <<Src.vol>>, !.j = 1]
            /\ pc' = "backupFilesystem"
            /\ UNCHANGED <<faults, calls, result>>
    /\ UNCHANGED <<b, sources, world, now, caller, match, clean, pipe, slog, heap, kernel>>

\* backupSource: every filesystem is done; cleanSnapshots(src.vol, 2, src.recurse).
backupSourceCleanup ==
    /\ pc = "backupFilesystem"
    /\ frame.j > Len(frame.filesystems)
    /\ clean' = [Clean0 EXCEPT !.vol = Src.vol, !.retainArg = Retain, !.retain = Retain,
                               !.recurse = Src.recurse]
    /\ pc' = "cleanSnapshots"
    /\ UNCHANGED <<faults, b, sources, world, now, calls, caller, frame, match, pipe, result, slog,
                   heap, kernel>>

(***************************************************************************)
(* backupFilesystem.                                                       *)
(***************************************************************************)
\* datasetExists, had it taken every target for an existing one.
ProbeAlwaysTrue(o) == TRUE

\* datasetExists for one outcome o of its query: "return err == nil".
Probe(o) == o.r.err = EmptyStr

\* backupFilesystem begins: datasetExists(targetVol).
datasetExists ==
    /\ pc = "backupFilesystem"
    /\ frame.j <= Len(frame.filesystems)
    /\ \E o \in query(world, DatasetExistsArgs(TargetVol)) :
         /\ calls' = Log(o, DatasetExistsArgs(TargetVol))
         /\ faults' = Spend(o)
         /\ IF Probe(o)
            THEN /\ match' = [Match0 EXCEPT !.source = Fs, !.target = TargetVol]
                 /\ pc' = "getLatestMatchingSnapshot"
            ELSE /\ match' = match
                 /\ pc' = "dryrunSingleBackup"
    /\ frame' = [frame EXCEPT !.startSnap = EmptyStr]
    /\ UNCHANGED <<b, sources, world, now, caller, clean, pipe, result, slog, heap, kernel>>

\* getLatestMatchingSnapshot: listSnapshots(source).
getLatestMatchingSnapshot ==
    /\ pc = "getLatestMatchingSnapshot"
    /\ \E o \in query(world, ListSnapshotsArgs(match.source)) :
         /\ calls' = Log(o, ListSnapshotsArgs(match.source))
         /\ faults' = Spend(o)
         /\ LET l == listSnapshots(o)
            IN  IF l.err # NoError
                THEN /\ getLatestMatchingSnapshotReturns(EmptyStr, l.err)
                     /\ match' = match
                ELSE /\ match' = [match EXCEPT !.sourceSnaps = l.snaps]
                     /\ pc' = "matchTarget"
                     /\ UNCHANGED <<frame, result>>
    /\ UNCHANGED <<b, sources, world, now, caller, clean, pipe, slog, heap, kernel>>

\* getLatestMatchingSnapshot: listSnapshots(target) and the scan.
matchTarget ==
    /\ pc = "matchTarget"
    /\ \E o \in query(world, ListSnapshotsArgs(match.target)) :
         /\ calls' = Log(o, ListSnapshotsArgs(match.target))
         /\ faults' = Spend(o)
         /\ LET l == listSnapshots(o)
                m == LatestMatching(match.sourceSnaps, l.snaps, match.target)
            IN  IF l.err # NoError
                THEN getLatestMatchingSnapshotReturns(EmptyStr, l.err)
                ELSE getLatestMatchingSnapshotReturns(m.snap, m.err)
    /\ UNCHANGED <<b, sources, world, now, caller, match, clean, pipe, slog, heap, kernel>>

\* The estimate's error, had a dry run returned it like any other run.
EstimateErrorKept(err) == err

\* What backupFilesystem returns when the estimate failed with err: nil in a
\* dry run ("if b.dryrun { ... return nil }"), err otherwise.
EstimateError(err) == IF b.dryrun THEN NoError ELSE err

\* backupFilesystem: the line a dry run logs for the estimate e, with the size
\* if there is one.
WouldSend(e) ==
    LET size == IF e.err = NoError THEN HumanBytes(e.size) ELSE EmptyStr
    IN  IF frame.startSnap # EmptyStr
        THEN [msg |-> "dry run: would send incremental", fs |-> Fs,
              from |-> frame.startSnap, to |-> FsSnap, size |-> size]
        ELSE [msg |-> "dry run: would send full", fs |-> Fs,
              from |-> EmptyStr, to |-> TargetVol, size |-> size]

\* backupFilesystem: the estimate, and the return of a dry run.
estimate ==
    /\ pc = "dryrunSingleBackup"
    /\ \E o \in query(world, EstimateArgs(frame.startSnap, FsSnap)) :
         /\ calls' = Log(o, EstimateArgs(frame.startSnap, FsSnap))
         /\ faults' = Spend(o)
         /\ LET e == dryrunSingleBackup(o)
            IN  /\ slog' = IF b.dryrun THEN Info(WouldSend(e)) ELSE slog
                /\ IF e.err # NoError
                   THEN backupFilesystemReturns(EstimateError(e.err))
                   ELSE IF b.dryrun
                        THEN backupFilesystemReturns(NoError)
                        ELSE /\ frame' = [frame EXCEPT !.size = e.size]
                             /\ pc' = "runSingleBackup"
                             /\ result' = result
    /\ UNCHANGED <<b, sources, world, now, caller, match, clean, pipe, heap, kernel>>

(***************************************************************************)
(* The transfer: runSingleBackup, pipeline and execPipeline.               *)
(***************************************************************************)
SendArgs(startSnap, endSnap) ==
    IF startSnap # EmptyStr
    THEN buildCommand(FALSE, <<Str("send"), Str("-i"), startSnap, endSnap>>)
    ELSE buildCommand(FALSE, <<Str("send"), endSnap>>)

ReceiveArgs(fs) == buildCommand(TRUE, <<Str("receive"), Str("-F"), JoinPath(b.target, fs)>>)

\* The progress filter, had it been added without a look for pv.
PvArgsAlways(size) == <<(<<PvPath, Str("-s"), FormatInt(size)>>)>>

\* The progress filter, when exec.LookPath finds it and the size is known.
PvArgs(size) ==
    IF world.pv /\ size > 0 THEN <<(<<PvPath, Str("-s"), FormatInt(size)>>)>> ELSE <<>>

\* pipeline returns (lines, stderr, err): to runSingleBackup, which wraps an
\* error for backupFilesystem, or to whoever entered it.
pipelineReturns(lines, stderr, err, p) ==
    IF caller # "RunBackup"
    THEN /\ Returns(lines, [op |-> "", stderr |-> stderr, err |-> err])
         /\ frame' = frame
         /\ pipe' = p
    ELSE IF err # EmptyStr
    THEN /\ backupFilesystemReturns(wrapCmdError("during backup", stderr, err))
         /\ pipe' = p
    ELSE /\ backupFilesystemReturns(NoError)
         /\ pipe' = Pipe0

runSingleBackup ==
    /\ pc = "runSingleBackup"
    /\ LET sendArgs == SendArgs(frame.startSnap, FsSnap)
           receiveArgs == ReceiveArgs(Fs)
       IN  pipe' = [Pipe0 EXCEPT !.allCmds =
                       <<sendArgs>> \o PvArgs(frame.size) \o <<receiveArgs>>]
    /\ pc' = "pipeline"
    /\ UNCHANGED <<faults, b, sources, world, now, calls, caller, frame, match, clean, result,
                   slog, heap, kernel>>

\* pipeline executes a write pipeline; skipped in dry-run mode.
pipeline ==
    /\ pc = "pipeline"
    /\ IF b.dryrun
       THEN pipelineReturns(<<>>, EmptyStr, EmptyStr, pipe)
       ELSE /\ pc' = "execPipeline"
            /\ UNCHANGED <<frame, pipe, result>>
    /\ slog' = pipelineInfo(pipe.allCmds)
    /\ UNCHANGED <<faults, b, sources, world, now, calls, caller, match, clean, heap, kernel>>

\* The length check, had it let a single command through.
TooFewCommandsNone(allCmds) == Len(allCmds) < 1

\* "if len(allCmds) < 2"
TooFewCommands(allCmds) == Len(allCmds) < 2

\* The check for an empty command, had it looked at the first stage only.
EmptyCommandFirst(allCmds) == Len(allCmds[1]) = 0

\* The loop over allCmds meets a stage with "len(cmdArgs) == 0".
EmptyCommand(allCmds) == \E k \in 1..Len(allCmds) : Len(allCmds[k]) = 0

TooFewError == Str("pipeline needs at least 2 commands")
EmptyCommandError == Str("empty command in pipeline")

\* execPipeline: the checks, the exec.Cmd values and their pipes; nothing runs yet.
execPipeline ==
    /\ pc = "execPipeline"
    /\ IF TooFewCommands(pipe.allCmds)
       THEN pipelineReturns(<<>>, EmptyStr, TooFewError, pipe)
       ELSE IF EmptyCommand(pipe.allCmds)
       THEN pipelineReturns(<<>>, EmptyStr, EmptyCommandError, pipe)
       ELSE /\ pipe' = [pipe EXCEPT !.cmds = [k \in 1..Len(pipe.allCmds) |-> "new"], !.i = 1]
            /\ pc' = "start"
            /\ UNCHANGED <<frame, result>>
    /\ UNCHANGED <<faults, b, sources, world, now, calls, caller, match, clean, slog, heap, kernel>>

\* fmt.Errorf("error starting command %d: %w", i, err), i counted from 0
StartError(i, err) == <<"error starting command ">> \o FormatInt(i - 1) \o <<": ">> \o err

\* fmt.Errorf("command %d failed: %w", i, err), i counted from 0
WaitError(i, err) == <<"command ">> \o FormatInt(i - 1) \o <<" failed: ">> \o err

NotFound == Str("executable file not found")

\* The Start loop, had the Wait loop been left out after it.
AfterStartNoWait(i, n) == IF i = n THEN "collect" ELSE "start"

\* After cmd.Start() of stage i of n: the next Start, or the Wait loop.
AfterStart(i, n) == IF i = n THEN "wait" ELSE "start"

\* execPipeline: cmd.Start() of stage pipe.i; the first failure returns at once.
start ==
    /\ pc = "start"
    /\ \E ok \in {TRUE} \cup (IF faults > 0 THEN {FALSE} ELSE {}) :
         IF ok
         THEN /\ pipe' = [pipe EXCEPT !.cmds[pipe.i] = "running",
                                      !.i = IF pipe.i = Len(pipe.cmds) THEN 1 ELSE pipe.i + 1]
              /\ pc' = AfterStart(pipe.i, Len(pipe.cmds))
              /\ calls' = Append(calls, pipe.allCmds[pipe.i])
              /\ UNCHANGED <<faults, frame, result>>
         ELSE /\ pipelineReturns(<<>>, EmptyStr, StartError(pipe.i, NotFound),
                                 [pipe EXCEPT !.cmds[pipe.i] = "unstarted"])
              /\ calls' = calls
              /\ faults' = faults - 1
    /\ UNCHANGED <<b, sources, world, now, caller, match, clean, slog, heap, kernel>>

\* What the terminal stage may have written to its standard error.
StderrBufs == {<<>>, <<"warning", "\n">>}

\* The ways stage i can exit.  A send needs its snapshots; a receive succeeds
\* only on the complete stream of a send that succeeded.
StageExits(w, p, i) ==
    LET argv == p.allCmds[i]
        op == Op(argv)
        Exit(ok, w2, outs, diags, fault) ==
            {[ok |-> ok, world |-> w2, stdout |-> o, stderr |-> d, fault |-> fault] :
                o \in outs, d \in diags}
        good == IF op = Str("send")
                THEN IF SendPossible(w, argv) THEN Exit(TRUE, w, {<<>>}, {<<>>}, FALSE) ELSE {}
                ELSE IF op = Str("receive")
                THEN IF i > 1 /\ Op(p.allCmds[1]) = Str("send") /\ p.cmds[1] = "exited0"
                     THEN UNION {Exit(TRUE, w2, {<<>>}, {<<>>}, FALSE) :
                                    w2 \in ZfsReceive(w, argv, p.allCmds[1])}
                     ELSE {}
                ELSE Exit(TRUE, w, StdoutBufs, StderrBufs, FALSE)
        diags == IF Len(CmdArgs(argv)) = 0 THEN StderrBufs ELSE {<<>>, FailText}
        outs == IF Len(CmdArgs(argv)) = 0 THEN StdoutBufs ELSE {<<>>}
    IN  good \cup (IF good = {} THEN Exit(FALSE, w, outs, diags, FALSE)
                   ELSE IF faults > 0 THEN Exit(FALSE, w, outs, diags, TRUE)
                   ELSE {})

\* execPipeline: cmd.Wait() of stage pipe.i, which blocks until the stage exits.
wait ==
    /\ pc = "wait"
    /\ \E x \in StageExits(world, pipe, pipe.i) :
         /\ world' = x.world
         /\ faults' = Spend(x)
         /\ pipe' = [pipe EXCEPT
                        !.cmds[pipe.i] = IF x.ok THEN "exited0" ELSE "exited1",
                        !.errs = IF x.ok THEN @ ELSE Append(@, WaitError(pipe.i, ExitStatus)),
                        !.stdoutBuf = IF pipe.i = Len(pipe.cmds) THEN x.stdout ELSE @,
                        !.stderrBuf = IF pipe.i = Len(pipe.cmds) THEN x.stderr ELSE @,
                        !.i = pipe.i + 1]
         /\ pc' = IF pipe.i = Len(pipe.cmds) THEN "collect" ELSE "wait"
    /\ UNCHANGED <<b, sources, now, calls, caller, frame, match, clean, result, slog, heap, kernel>>

\* The reported error, had it been the last one collected.
LastError(errs) == errs[Len(errs)]

\* The error execPipeline reports among those it collected.
FirstError(errs) == errs[1]

\* execPipeline: every stage was waited for; the result.
collect ==
    /\ pc = "collect"
    /\ LET stdoutLines == StdoutLines(pipe.stdoutBuf)
           stderrStr == TrimSpace(pipe.stderrBuf)
       IN  IF Len(pipe.errs) = 0
           THEN pipelineReturns(stdoutLines, EmptyStr, EmptyStr, pipe)
           ELSE LET err == FirstError(pipe.errs)
                IN  pipelineReturns(stdoutLines,
                                    IF stderrStr = EmptyStr THEN err ELSE stderrStr,
                                    err, pipe)
    /\ UNCHANGED <<faults, b, sources, world, now, calls, caller, match, clean, slog, heap, kernel>>

\* run(args...), entered on its own with one command.
runCmd ==
    /\ pc = "run"
    /\ \E o \in run(world, pipe.allCmds[1]) :
         /\ world' = o.world
         /\ calls' = Log(o, pipe.allCmds[1])
         /\ faults' = Spend(o)
         /\ Returns(o.r.lines, [op |-> "", stderr |-> o.r.stderr, err |-> o.r.err])
    /\ slog' = runInfo(pipe.allCmds[1])
    /\ UNCHANGED <<b, sources, now, caller, frame, match, clean, pipe, heap, kernel>>

(***************************************************************************)
(* Retention: cleanSnapshots and deleteSnapshot.                           *)
(***************************************************************************)
\* deleteSnapshot, had it left the recursion flag out.
DestroyArgsFlat(snap, recurse) ==
    buildCommand(isTargetVolume(snap), <<Str("destroy"), snap>>)

\* deleteSnapshot, had it named the copy of the snapshot under the target root.
DestroyArgsOnTarget(snap, recurse) ==
    buildCommand(TRUE, <<Str("destroy")>> \o (IF recurse THEN <<Str("-r")>> ELSE <<>>)
                          \o <<JoinPath(b.target, snap)>>)

DestroyArgs(snap, recurse) ==
    buildCommand(isTargetVolume(snap),
                 <<Str("destroy")>> \o (IF recurse THEN <<Str("-r")>> ELSE <<>>) \o <<snap>>)

\* cleanSnapshots without its clamp.
ClampRetainNone(retain) == retain

\* "if retain < 1 { retain = 1 }"
ClampRetain(retain) == IF retain < 1 THEN 1 ELSE retain

\* The quota test, off by one.
RetainedOneMore(saved, retain) == saved <= retain

\* The quota test, off by one the other way.
RetainedOneLess(saved, retain) == saved + 1 < retain

\* "if saved < retain": the snapshot is one of those to keep.
\* The retention test of cleanSnapshots, had it kept no snapshot at all.
RetainedNone(saved, retain) == FALSE

\* cleanSnapshots: the snapshot is among the newest retain backup snapshots.
Retained(saved, retain) == saved < retain

\* cleanSnapshots begins: the listing, the clamp and the short cut.
cleanSnapshots ==
    /\ pc = "cleanSnapshots"
    /\ \E o \in query(world, ListSnapshotsArgs(clean.vol)) :
         /\ calls' = Log(o, ListSnapshotsArgs(clean.vol))
         /\ faults' = Spend(o)
         /\ LET l == listSnapshots(o)
                c == [clean EXCEPT !.snaps = l.snaps, !.retain = ClampRetain(clean.retain),
                                   !.i = Len(l.snaps), !.saved = 0]
            IN  IF l.err # NoError THEN cleanSnapshotsReturns(l.err, clean)
                ELSE IF Len(l.snaps) <= c.retain THEN cleanSnapshotsReturns(NoError, c)
                ELSE /\ clean' = c
                     /\ pc' = "cleanLoop"
                     /\ UNCHANGED <<frame, result>>
    /\ UNCHANGED <<b, sources, world, now, caller, match, pipe, slog, heap, kernel>>

\* cleanSnapshots: one round of the loop, from the newest snapshot down.
cleanLoop ==
    /\ pc = "cleanLoop"
    /\ IF clean.i < 1
       THEN /\ cleanSnapshotsReturns(NoError, clean)
            /\ UNCHANGED <<faults, world, calls, slog>>
       ELSE LET snap == clean.snaps[clean.i]
            IN  IF ~isBackupSnapshot(snap)
                THEN /\ clean' = [clean EXCEPT !.i = @ - 1]
                     /\ UNCHANGED <<faults, world, calls, pc, frame, result, slog>>
                ELSE IF Retained(clean.saved, clean.retain)
                THEN /\ clean' = [clean EXCEPT !.i = @ - 1, !.saved = @ + 1]
                     /\ UNCHANGED <<faults, world, calls, pc, frame, result, slog>>
                ELSE \E o \in run(world, DestroyArgs(snap, clean.recurse)) :
                       /\ world' = o.world
                       /\ calls' = Log(o, DestroyArgs(snap, clean.recurse))
                       /\ slog' = runInfo(DestroyArgs(snap, clean.recurse))
                       /\ faults' = Spend(o)
                       /\ IF o.r.err # EmptyStr
                          THEN cleanSnapshotsReturns(
                                   wrapCmdError("deleting snapshot", o.r.stderr, o.r.err),
                                   [clean EXCEPT !.deleted = Append(@, snap)])
                          ELSE /\ clean' = [clean EXCEPT !.i = @ - 1,
                                                          !.deleted = Append(@, snap)]
                               /\ UNCHANGED <<pc, frame, result>>
    /\ UNCHANGED <<b, sources, now, caller, match, pipe, heap, kernel>>

(***************************************************************************)
(* The runs of the model.                                                  *)
(***************************************************************************)
MaxRetain == 3
MaxOpts == 2
MaxBuilds == 2
MaxSpare == 2
MaxLen == 9

T(k) == TimeFormat(k)

\* The sequences over S of length at most n without a repeated element.
InjSeqs(S, n) ==
    {q \in UNION {[1..k -> S] : k \in 0..n} :
        \A x, y \in 1..Len(q) : x # y => q[x] # q[y]}

SourceSet == {[vol |-> Pool, recurse |-> TRUE], [vol |-> Child, recurse |-> FALSE]}

Absent == [exists |-> FALSE, snaps |-> <<>>]
Present(snaps) == [exists |-> TRUE, snaps |-> snaps]

\* A world: the snapshots of the two source filesystems, the state of their
\* targets, and whether exec.LookPath finds pv.
World(poolSnaps, childSnaps, bp, bpa, pv) ==
    [exists |-> SourceDatasets
                   \cup (IF bp.exists THEN {JoinPath(TargetRoot, Pool)} ELSE {})
                   \cup (IF bpa.exists THEN {JoinPath(TargetRoot, Child)} ELSE {}),
     snaps |-> [d \in AllDatasets |->
                   IF d = Pool THEN poolSnaps
                   ELSE IF d = Child THEN childSnaps
                   ELSE IF d = JoinPath(TargetRoot, Pool) THEN bp.snaps
                   ELSE bpa.snaps],
     pv |-> pv]

PoolLists ==
    {<<>>, <<T(1), T(2), ManualLabel>>, <<ManualLabel, T(1), T(2)>>, <<T(1), T(2), T(3)>>}
ChildLists == {<<T(3)>>}
TargetStates ==
    {<<Absent, Absent>>, <<Present(<<>>), Absent>>,
     <<Present(<<T(2), DateLabel>>), Present(<<T(3)>>)>>}

\* RunBackup(sources) on a session made by NewBackup; the newest snapshot
\* there is was taken this second or earlier.  A dry run never looks for pv.
Init ==
    /\ \E d \in BOOLEAN : b = Session(d)
    /\ sources \in UNION {[1..k -> SourceSet] : k \in 1..MaxSources}
    /\ \E p \in PoolLists, c \in ChildLists, t \in TargetStates :
       \E v \in (IF b.dryrun THEN {FALSE} ELSE BOOLEAN) :
         world = World(p, c, t[1], t[2], v)
    /\ now \in {3, 4}
    /\ calls = <<>>
    /\ faults = MaxFaults
    /\ pc = "RunBackup"
    /\ caller = "RunBackup"
    /\ frame = Frame0
    /\ match = Match0
    /\ clean = Clean0
    /\ pipe = Pipe0
    /\ result = Result0
    /\ slog = <<(<<>>)>>
    /\ heap = NoHeap
    /\ kernel = NoKernel

Next ==
    \/ RunBackup
    \/ createSnapshot
    \/ listFilesystems
    \/ backupSourceCleanup
    \/ datasetExists
    \/ getLatestMatchingSnapshot
    \/ matchTarget
    \/ estimate
    \/ runSingleBackup
    \/ pipeline
    \/ execPipeline
    \/ start
    \/ wait
    \/ collect
    \/ cleanSnapshots
    \/ cleanLoop

Spec == Init /\ [][Next]_vars

\* cleanSnapshots(vol, retain, recurse) entered on its own, on any list of
\* snapshots and any retain count.
CleanLabels == {T(1), T(2), T(3), ManualLabel, FractionLabel}

\* Five backup snapshots, oldest first, as "zfs list -s creation" gives them.
FiveCanonical == <<T(1), T(2), T(3), T(4), T(5)>>

InitClean ==
    /\ \E d \in BOOLEAN : b = Session(d)
    /\ sources = <<>>
    /\ \E p \in InjSeqs(CleanLabels, MaxSnaps) \cup {FiveCanonical}, c \in BOOLEAN :
         world = World(p, IF c THEN p ELSE <<>>, Absent, Absent, FALSE)
    /\ now = 4
    /\ calls = <<>>
    /\ faults = MaxFaults
    /\ pc = "cleanSnapshots"
    /\ caller = "cleanSnapshots"
    /\ frame = Frame0
    /\ match = Match0
    /\ \E r \in (-1)..MaxRetain, rec \in BOOLEAN :
         clean = [Clean0 EXCEPT !.vol = Pool, !.retainArg = r, !.retain = r, !.recurse = rec]
    /\ pipe = Pipe0
    /\ result = Result0
    /\ slog = <<(<<>>)>>
    /\ heap = NoHeap
    /\ kernel = NoKernel

NextClean ==
    \/ cleanSnapshots
    \/ cleanLoop

SpecClean == InitClean /\ [][NextClean]_vars

\* getLatestMatchingSnapshot(source, target) entered on its own, on any two
\* lists of snapshots.
MatchLabels == {T(1), T(2), T(3), ManualLabel}

InitMatch ==
    /\ \E d \in BOOLEAN : b = Session(d)
    /\ sources = <<>>
    /\ \E p \in InjSeqs(MatchLabels, MaxSnaps), t \in InjSeqs(MatchLabels, MaxSnaps) :
         world = World(p, <<>>, Present(t), Absent, FALSE)
    /\ now = 4
    /\ calls = <<>>
    /\ faults = MaxFaults
    /\ pc = "getLatestMatchingSnapshot"
    /\ caller = "getLatestMatchingSnapshot"
    /\ frame = Frame0
    /\ match = [Match0 EXCEPT !.source = Pool, !.target = JoinPath(TargetRoot, Pool)]
    /\ clean = Clean0
    /\ pipe = Pipe0
    /\ result = Result0
    /\ slog = <<(<<>>)>>
    /\ heap = NoHeap
    /\ kernel = NoKernel

NextMatch ==
    \/ getLatestMatchingSnapshot
    \/ matchTarget

SpecMatch == InitMatch /\ [][NextMatch]_vars

\* pipeline(cmds) and run(args...) entered on their own, on any list of
\* commands; a command line may be empty in a pipeline.
PipeArgvs == {<<>>, <<Str("cat")>>, <<Str("grep"), Str("x")>>}

InitPipe ==
    /\ \E d \in BOOLEAN : b = Session(d)
    /\ sources = <<>>
    /\ world = World(<<>>, <<>>, Absent, Absent, FALSE)
    /\ now = 4
    /\ calls = <<>>
    /\ faults = 2 * MaxStages
    /\ \/ /\ pc = "pipeline"
          /\ \E cmds \in UNION {[1..k -> PipeArgvs] : k \in 0..MaxStages} :
               pipe = [Pipe0 EXCEPT !.allCmds = cmds]
       \/ /\ pc = "run"
          /\ \E args \in PipeArgvs \ {<<>>} : pipe = [Pipe0 EXCEPT !.allCmds = <<args>>]
    /\ caller = pc
    /\ frame = Frame0
    /\ match = Match0
    /\ clean = Clean0
    /\ result = Result0
    /\ slog = <<(<<>>)>>
    /\ heap = NoHeap
    /\ kernel = NoKernel

NextPipe ==
    \/ pipeline
    \/ execPipeline
    \/ start
    \/ wait
    \/ collect
    \/ runCmd

SpecPipe == InitPipe /\ [][NextPipe]_vars

(***************************************************************************)
(* A pipeline with its stage processes and the pipes between them:         *)
(* execPipeline from the StdoutPipe loop on, every Start succeeding.  The  *)
(* first stage has up to MaxOut bytes to write, a pipe holds PipeCap bytes *)
(* before a write to it blocks.                                            *)
(***************************************************************************)
MaxOut == 3
PipeCap == 1

\* The read end of pipe k is open somewhere: in stage k + 1, which has it as
\* its standard input, or in this process, which got it from StdoutPipe.
ReadEndOpen(k) == kernel.proc[k + 1] = "running" \/ k \in kernel.parentRead

\* The write end of pipe k is open: in stage k, or in this process until
\* Start of stage k has handed it over.
WriteEndOpen(k) == kernel.proc[k] \in {"new", "running"}

InitFlow ==
    /\ b = Session(FALSE)
    /\ sources = <<>>
    /\ world = World(<<>>, <<>>, Absent, Absent, FALSE)
    /\ now = 4
    /\ calls = <<>>
    /\ faults = 0
    /\ pc = "StdoutPipe"
    /\ caller = "pipeline"
    /\ \E n \in 2..MaxStages, out \in 0..MaxOut :
         /\ pipe = [Pipe0 EXCEPT !.allCmds = [k \in 1..n |-> <<Str("cat")>>],
                                 !.cmds = [k \in 1..n |-> "new"],
                                 !.i = 1]
         /\ kernel = [proc |-> [k \in 1..n |-> "new"],
                      hold |-> [k \in 1..n |-> IF k = 1 THEN out ELSE 0],
                      fill |-> [k \in 1..(n - 1) |-> 0],
                      parentRead |-> {}]
    /\ frame = Frame0
    /\ match = Match0
    /\ clean = Clean0
    /\ result = Result0
    /\ slog = <<(<<>>)>>
    /\ heap = NoHeap

\* execPipeline: the StdoutPipe loop.  The read end of each pipe becomes the
\* standard input of the next stage and stays open in this process.
cmdStdoutPipe ==
    /\ pc = "StdoutPipe"
    /\ kernel' = [kernel EXCEPT !.parentRead = 1..(Len(pipe.cmds) - 1)]
    /\ pc' = "start"
    /\ UNCHANGED <<b, sources, world, now, calls, faults, caller, frame, match, clean, pipe,
                   result, slog, heap>>

\* execPipeline: cmd.Start() of stage pipe.i, which begins to run.
cmdStart ==
    /\ pc = "start"
    /\ pipe' = [pipe EXCEPT !.cmds[pipe.i] = "running",
                            !.i = IF pipe.i = Len(pipe.cmds) THEN 1 ELSE pipe.i + 1]
    /\ kernel' = [kernel EXCEPT !.proc[pipe.i] = "running"]
    /\ calls' = Append(calls, pipe.allCmds[pipe.i])
    /\ pc' = AfterStart(pipe.i, Len(pipe.cmds))
    /\ UNCHANGED <<b, sources, world, now, faults, caller, frame, match, clean, result, slog,
                   heap>>

\* execPipeline: cmd.Wait() of stage pipe.i returns once the stage has exited,
\* and only then closes the read end StdoutPipe gave for that stage.
cmdWait ==
    /\ pc = "wait"
    /\ kernel.proc[pipe.i] \in {"exited0", "exited1"}
    /\ pipe' = [pipe EXCEPT
                   !.cmds[pipe.i] = kernel.proc[pipe.i],
                   !.errs = IF kernel.proc[pipe.i] = "exited0" THEN @
                            ELSE Append(@, WaitError(pipe.i, ExitStatus)),
                   !.i = pipe.i + 1]
    /\ kernel' = [kernel EXCEPT !.parentRead = @ \ {pipe.i}]
    /\ pc' = IF pipe.i = Len(pipe.cmds) THEN "collect" ELSE "wait"
    /\ UNCHANGED <<b, sources, world, now, calls, faults, caller, frame, match, clean, result,
                   slog, heap>>

\* Stage p writes a byte to its standard output: it is killed when no read end
\* of the pipe is open, and it blocks while the pipe is full.
stageWrite(p) ==
    /\ p \in 1..(Len(kernel.proc) - 1)
    /\ kernel.proc[p] = "running"
    /\ kernel.hold[p] > 0
    /\ IF ReadEndOpen(p)
       THEN /\ kernel.fill[p] < PipeCap
            /\ kernel' = [kernel EXCEPT !.fill[p] = @ + 1, !.hold[p] = @ - 1]
       ELSE kernel' = [kernel EXCEPT !.proc[p] = "exited1"]
    /\ UNCHANGED <<b, sources, world, now, calls, faults, pc, caller, frame, match, clean,
                   pipe, result, slog, heap>>

\* Stage p reads a byte from its standard input; the last stage consumes it,
\* another stage has it in hand to write.
stageRead(p) ==
    /\ p \in 2..Len(kernel.proc)
    /\ kernel.proc[p] = "running"
    /\ kernel.hold[p] = 0
    /\ kernel.fill[p - 1] > 0
    /\ kernel' = [kernel EXCEPT !.fill[p - 1] = @ - 1,
                                !.hold[p] = IF p = Len(kernel.proc) THEN 0 ELSE 1]
    /\ UNCHANGED <<b, sources, world, now, calls, faults, pc, caller, frame, match, clean,
                   pipe, result, slog, heap>>

\* Stage p exits with status 0: it has written everything and its input, if
\* it has one, is at end-of-file.
stageEnds(p) ==
    /\ p \in 1..Len(kernel.proc)
    /\ kernel.proc[p] = "running"
    /\ kernel.hold[p] = 0
    /\ p > 1 => kernel.fill[p - 1] = 0 /\ ~WriteEndOpen(p - 1)
    /\ kernel' = [kernel EXCEPT !.proc[p] = "exited0"]
    /\ UNCHANGED <<b, sources, world, now, calls, faults, pc, caller, frame, match, clean,
                   pipe, result, slog, heap>>

\* A downstream stage p fails and exits before its input has ended.
stageQuits(p) ==
    /\ p \in 2..Len(kernel.proc)
    /\ kernel.proc[p] = "running"
    /\ kernel' = [kernel EXCEPT !.proc[p] = "exited1"]
    /\ UNCHANGED <<b, sources, world, now, calls, faults, pc, caller, frame, match, clean,
                   pipe, result, slog, heap>>

NextFlow ==
    \/ cmdStdoutPipe
    \/ cmdStart
    \/ cmdWait
    \/ collect
    \/ \E p \in 1..MaxStages : stageWrite(p)
    \/ \E p \in 1..MaxStages : stageRead(p)
    \/ \E p \in 1..MaxStages : stageEnds(p)
    \/ \E p \in 1..MaxStages : stageQuits(p)

\* This process takes its steps, and every stage goes on while it can: it
\* writes, reads, ends at end-of-file, and dies of a write nobody can read.
FairFlow ==
    /\ WF_vars(cmdStdoutPipe)
    /\ WF_vars(cmdStart)
    /\ WF_vars(cmdWait)
    /\ WF_vars(collect)
    /\ \A p \in 1..MaxStages :
          WF_vars(stageWrite(p)) /\ WF_vars(stageRead(p)) /\ WF_vars(stageEnds(p))

SpecFlow == InitFlow /\ [][NextFlow]_vars /\ FairFlow

\* RunBackup on one source volume that lies under the target root: the
\* volume b/p backed up to b/b/p.
UnderSource == JoinPath(TargetRoot, Pool)
UnderTarget == JoinPath(TargetRoot, UnderSource)
UnderParent == JoinPath(TargetRoot, TargetRoot)

WorldUnder(sourceSnaps, t, pv) ==
    [exists |-> {UnderSource, UnderParent}
                   \cup (IF t.exists THEN {UnderTarget} ELSE {}),
     snaps |-> [d \in {UnderSource, UnderParent, UnderTarget} |->
                   IF d = UnderSource THEN sourceSnaps
                   ELSE IF d = UnderTarget THEN t.snaps
                   ELSE <<>>],
     pv |-> pv]

InitUnder ==
    /\ \E d \in BOOLEAN : b = Session(d)
    /\ \E r \in BOOLEAN : sources = <<[vol |-> UnderSource, recurse |-> r]>>
    /\ \E p \in PoolLists, t \in {Absent, Present(<<>>), Present(<<T(2), DateLabel>>)} :
       \E v \in (IF b.dryrun THEN {FALSE} ELSE BOOLEAN) :
         world = WorldUnder(p, t, v)
    /\ now \in {3, 4}
    /\ calls = <<>>
    /\ faults = MaxFaults
    /\ pc = "RunBackup"
    /\ caller = "RunBackup"
    /\ frame = Frame0
    /\ match = Match0
    /\ clean = Clean0
    /\ pipe = Pipe0
    /\ result = Result0
    /\ slog = <<(<<>>)>>
    /\ heap = NoHeap
    /\ kernel = NoKernel

SpecUnder == InitUnder /\ [][Next]_vars

\* RunBackup(sources) in the hour that local time repeats.  The labels are
\* local time without a zone: cleanup has left the two newest snapshots on the
\* source, the targets still hold an older one, and the clock shows the
\* second of that one again, or a later second.
BackSource == <<T(3), T(4)>>
BackTargets == {Absent, Present(<<T(2), T(3), T(4)>>)}

InitBack ==
    /\ \E d \in BOOLEAN : b = Session(d)
    /\ sources \in UNION {[1..k -> SourceSet] : k \in 1..MaxSources}
    /\ \E bp \in BackTargets, bpa \in BackTargets :
       \E v \in (IF b.dryrun THEN {FALSE} ELSE BOOLEAN) :
         world = World(BackSource, BackSource, bp, bpa, v)
    /\ now \in {2, 5}
    /\ calls = <<>>
    /\ faults = MaxFaults
    /\ pc = "RunBackup"
    /\ caller = "RunBackup"
    /\ frame = Frame0
    /\ match = Match0
    /\ clean = Clean0
    /\ pipe = Pipe0
    /\ result = Result0
    /\ slog = <<(<<>>)>>
    /\ heap = NoHeap
    /\ kernel = NoKernel

SpecBack == InitBack /\ [][Next]_vars

\* RunBackup(sources) called twice on a dry-run session, while the pools stay
\* as they are and every command that can succeed does.
InitTwice ==
    /\ b = Session(TRUE)
    /\ sources \in UNION {[1..k -> SourceSet] : k \in 1..MaxSources}
    /\ \E p \in PoolLists, c \in ChildLists, t \in TargetStates :
         world = World(p, c, t[1], t[2], FALSE)
    /\ now \in {3, 4}
    /\ calls = <<>>
    /\ faults = 0
    /\ pc = "RunBackup"
    /\ caller = "RunBackup"
    /\ frame = Frame0
    /\ match = Match0
    /\ clean = Clean0
    /\ pipe = Pipe0
    /\ result = Result0
    /\ slog = <<(<<>>)>>
    /\ heap = NoHeap
    /\ kernel = NoKernel

\* The first call has returned: RunBackup(sources) is called again.
RunBackupAgain ==
    /\ pc = "done"
    /\ Len(slog) = 1
    /\ pc' = "RunBackup"
    /\ frame' = Frame0
    /\ match' = Match0
    /\ clean' = Clean0
    /\ result' = Result0
    /\ slog' = Append(slog, <<>>)
    /\ UNCHANGED <<b, sources, world, now, calls, faults, caller, pipe, heap, kernel>>

NextTwice ==
    \/ RunBackup
    \/ createSnapshot
    \/ listFilesystems
    \/ backupSourceCleanup
    \/ datasetExists
    \/ getLatestMatchingSnapshot
    \/ matchTarget
    \/ estimate
    \/ cleanSnapshots
    \/ cleanLoop
    \/ RunBackupAgain

SpecTwice == InitTwice /\ [][NextTwice]_vars

\* NewBackup(target, opts...) called with any target and up to MaxOpts options.
OptionCmds == {<<>>, DefaultCmd, SshCmd}

Options ==
    {WithDryRunOption}
        \cup {WithSourceCommandOption(c) : c \in OptionCmds}
        \cup {WithTargetCommandOption(c) : c \in OptionCmds}

Targets == {EmptyStr, TargetRoot, TargetRoot \o <<"/">>}

InitNew ==
    /\ b = NilBackup
    /\ sources = <<>>
    /\ world = World(<<>>, <<>>, Absent, Absent, FALSE)
    /\ now = 4
    /\ calls = <<>>
    /\ faults = 0
    /\ pc = "NewBackup"
    /\ caller = "NewBackup"
    /\ \E t \in Targets, o \in UNION {[1..k -> Options] : k \in 0..MaxOpts} :
         frame = [target |-> t, opts |-> o]
    /\ match = Match0
    /\ clean = Clean0
    /\ pipe = Pipe0
    /\ result = Result0
    /\ slog = <<(<<>>)>>
    /\ heap = NoHeap
    /\ kernel = NoKernel

\* NewBackup returns (b, err) to whoever called it.
callNewBackup ==
    /\ pc = "NewBackup"
    /\ LET n == NewBackup(frame.target, frame.opts)
       IN  /\ b' = n.b
           /\ Returns(<<>>, n.err)
    /\ UNCHANGED <<sources, world, now, calls, faults, caller, frame, match, clean, pipe, slog,
                   heap, kernel>>

NextNew == callNewBackup

SpecNew == InitNew /\ [][NextNew]_vars

\* buildCommand called up to MaxBuilds times on a session whose command
\* prefixes are slices the caller of the options made: with up to MaxSpare
\* elements of spare capacity, which hold data of the caller, and possibly
\* one and the same slice for both prefixes.
BuildArgs == {<<Str("list"), Pool>>, <<Str("send"), Str("-n"), Pool>>}

CallerSlice(elems, spare) == elems \o [k \in 1..spare |-> Str("x")]

InitBuild ==
    /\ \E s, t \in {DefaultCmd, SshCmd}, d \in BOOLEAN :
         /\ b = NewBackup(TargetRoot, (IF d THEN <<WithDryRunOption>> ELSE <<>>)
                   \o <<WithSourceCommandOption(s), WithTargetCommandOption(t)>>).b
         /\ \E es, et \in 0..MaxSpare, shared \in BOOLEAN :
              /\ shared => s = t /\ es = et
              /\ heap = [arrays |-> IF shared THEN <<CallerSlice(s, es)>>
                                    ELSE <<CallerSlice(s, es), CallerSlice(t, et)>>,
                         sourceCmd |-> [arr |-> 1, len |-> Len(s), cap |-> Len(s) + es],
                         targetCmd |-> [arr |-> IF shared THEN 1 ELSE 2, len |-> Len(t),
                                        cap |-> Len(t) + et],
                         built |-> <<>>]
    /\ sources = <<>>
    /\ world = World(<<>>, <<>>, Absent, Absent, FALSE)
    /\ now = 4
    /\ calls = <<>>
    /\ faults = 0
    /\ pc = "buildCommand"
    /\ caller = "buildCommand"
    /\ frame = [isTarget |-> FALSE, args |-> <<>>]
    /\ match = Match0
    /\ clean = Clean0
    /\ pipe = Pipe0
    /\ result = Result0
    /\ slog = <<(<<>>)>>
    /\ kernel = NoKernel

\* buildCommand(isTarget, args...) with the memory it works on: the clone of
\* the prefix, the append to it, and the slice returned.
callBuildCommand ==
    /\ pc = "buildCommand"
    /\ Len(heap.built) < MaxBuilds
    /\ \E isTarget \in BOOLEAN, args \in BuildArgs, spare \in {0, 1} :
         LET stored == IF isTarget THEN heap.targetCmd ELSE heap.sourceCmd
             base == Clone(heap, stored, spare)
             built == appendSlice(base.heap, base.slice, args)
         IN  /\ heap' = [built.heap EXCEPT !.built = Append(@, built.slice)]
             /\ frame' = [isTarget |-> isTarget, args |-> args]
             /\ result' = [val |-> Contents(built.heap, built.slice), err |-> NoError]
    /\ UNCHANGED <<b, sources, world, now, calls, faults, pc, caller, match, clean, pipe, slog,
                   kernel>>

NextBuild == callBuildCommand

SpecBuild == InitBuild /\ [][NextBuild]_vars

\* ParseSource(s) on any string of up to MaxLen characters, and String() of
\* the source it returns.
SpecChars == {"p", "/", "."}

InitParse ==
    /\ b = NilBackup
    /\ sources = <<>>
    /\ world = World(<<>>, <<>>, Absent, Absent, FALSE)
    /\ now = 4
    /\ calls = <<>>
    /\ faults = 0
    /\ pc = "ParseSource"
    /\ caller = "ParseSource"
    /\ \E s \in UNION {[1..k -> SpecChars] : k \in 0..MaxLen} :
         frame = [s |-> s, src |-> [vol |-> EmptyStr, recurse |-> FALSE]]
    /\ match = Match0
    /\ clean = Clean0
    /\ pipe = Pipe0
    /\ result = Result0
    /\ slog = <<(<<>>)>>
    /\ heap = NoHeap
    /\ kernel = NoKernel

callParseSource ==
    /\ pc = "ParseSource"
    /\ LET parsed == ParseSource(frame.s)
       IN  /\ frame' = [frame EXCEPT !.src = parsed.src]
           /\ result' = [val |-> <<>>, err |-> parsed.err]
           /\ pc' = IF parsed.err = NoError THEN "String" ELSE "done"
    /\ UNCHANGED <<b, sources, world, now, calls, faults, caller, match, clean, pipe, slog, heap, kernel>>

callString ==
    /\ pc = "String"
    /\ Returns(String(frame.src), NoError)
    /\ UNCHANGED <<b, sources, world, now, calls, faults, caller, frame, match, clean, pipe,
                   slog, heap, kernel>>

NextParse ==
    \/ callParseSource
    \/ callString

SpecParse == InitParse /\ [][NextParse]_vars


(***************************************************************************)
(* What the properties speak of.                                           *)
(***************************************************************************)
\* The label of a snapshot name: what follows its "@".
LabelOf(name) ==
    LET at == CHOOSE k \in 1..Len(name) : name[k] = "@"
    IN  SubSeq(name, at + 1, Len(name))

\* A launched command line that changes the pool it runs on.
Mutating(argv) ==
    \/ Op(argv) \in {Str("snapshot"), Str("destroy"), Str("receive")}
    \/ Op(argv) = Str("send") /\ ~Flag(argv, "-n")
    \/ Len(argv) > 0 /\ argv[1] = PvPath

IsDestroy(argv) == Op(argv) = Str("destroy")
DestroyCalls == SelectSeq(calls, IsDestroy)

\* The positions of the canonical snapshots of the list L, and those among
\* them with fewer than r canonical snapshots after them.
CanonIdx(L) == {k \in 1..Len(L) : TimeParseOK(LabelOf(L[k]))}
KeptIdx(L, r) == {k \in CanonIdx(L) : Cardinality({m \in CanonIdx(L) : m > k}) < r}
DoomedIdx(L, r) == CanonIdx(L) \ KeptIdx(L, r)

\* The snapshots of L to delete for the count r, from the newest down.
RECURSIVE DoomedFrom(_, _, _)
DoomedFrom(L, r, k) ==
    IF k < 1 THEN <<>>
    ELSE (IF k \in DoomedIdx(L, r) THEN <<L[k]>> ELSE <<>>) \o DoomedFrom(L, r, k - 1)

\* The labels of L outside the positions D, in the order of L.
RECURSIVE LabelsOutside(_, _, _)
LabelsOutside(L, D, k) ==
    IF k > Len(L) THEN <<>>
    ELSE (IF k \in D THEN <<>> ELSE <<LabelOf(L[k])>>) \o LabelsOutside(L, D, k + 1)

\* cleanSnapshots, entered on its own, has returned without an error.
CleanDone == pc = "done" /\ caller = "cleanSnapshots" /\ result.err = NoError

\* Every destroy that was launched, in order, is for these snapshots.
DestroysAre(snaps) ==
    /\ Len(DestroyCalls) = Len(snaps)
    /\ \A k \in 1..Len(snaps) : LastArg(DestroyCalls[k]) = snaps[k]

(***************************************************************************)
(* C1: in a dry-run session RunBackup launches no snapshot, no destroy and *)
(* no stage of a transfer pipeline, the pools stay as they were, and no    *)
(* mutating step reports a failure: each returned an empty success.        *)
(***************************************************************************)
\* The command line this step launched, if it launched one.
Launched == IF calls' = calls THEN {} ELSE {calls'[Len(calls')]}

DryRunStartsNoStage ==
    b.dryrun =>
        /\ pipe.cmds = <<>>
        /\ result.err.op \notin {"creating snapshot", "during backup", "deleting snapshot"}

DryRunStep ==
    b.dryrun =>
        /\ \A argv \in Launched : ~Mutating(argv)
        /\ world' = world

QueryAt ==
    IF pc = "listFilesystems"
    THEN (IF Src.recurse THEN ListFilesystemsArgs(Src.vol) ELSE <<>>)
    ELSE IF pc = "backupFilesystem"
    THEN (IF frame.j <= Len(frame.filesystems) THEN DatasetExistsArgs(TargetVol) ELSE <<>>)
    ELSE IF pc = "getLatestMatchingSnapshot" THEN ListSnapshotsArgs(match.source)
    ELSE IF pc = "matchTarget" THEN ListSnapshotsArgs(match.target)
    ELSE IF pc = "dryrunSingleBackup" THEN EstimateArgs(frame.startSnap, FsSnap)
    ELSE IF pc = "cleanSnapshots" THEN ListSnapshotsArgs(clean.vol)
    ELSE <<>>

C2_QueriesAlwaysExecute ==
    [][QueryAt # <<>> => calls' = Append(calls, QueryAt)]_vars

\* A dry run that has launched each kind of query.
C2_Witness ==
    /\ b.dryrun
    /\ pc = "done"
    /\ \E k \in 1..Len(calls) : Op(calls[k]) = Str("send") /\ Flag(calls[k], "-n")
    /\ \E k \in 1..Len(calls) : Op(calls[k]) = Str("list") /\ Flag(calls[k], "-r")
    /\ \E k \in 1..Len(calls) : Op(calls[k]) = Str("list") /\ Flag(calls[k], "-s")
    /\ \E k \in 1..Len(calls) :
         Op(calls[k]) = Str("list") /\ ~Flag(calls[k], "-o")

(***************************************************************************)
(* C3: for a list L and a count r >= 1, when no destroy fails,             *)
(* cleanSnapshots keeps the min(|canonical(L)|, r) newest canonical        *)
(* snapshots and calls deleteSnapshot for every other canonical snapshot   *)
(* and for nothing else; outside dry-run each call is a destroy, and the   *)
(* volume is left with L less the destroyed.                               *)
(***************************************************************************)
C3_RetentionKeepsNewest ==
    (CleanDone /\ clean.retainArg >= 1) =>
        LET L == clean.snaps
            r == clean.retainArg
        IN  /\ Cardinality(KeptIdx(L, r)) = Min(Cardinality(CanonIdx(L)), r)
            /\ clean.deleted = DoomedFrom(L, r, Len(L))
            /\ ~b.dryrun =>
                  /\ DestroysAre(clean.deleted)
                  /\ world.snaps[Pool] = LabelsOutside(L, DoomedIdx(L, r), 1)

\* Of three canonical snapshots the two newest were kept and the oldest destroyed.
C3_Witness ==
    /\ CleanDone
    /\ ~b.dryrun
    /\ clean.retainArg = 2
    /\ Len(clean.snaps) = 3
    /\ Len(clean.deleted) >= 1
    /\ Len(DestroyCalls) >= 1

(***************************************************************************)
(* C4: across a run of RunBackup no destroy is launched, and               *)
(* deleteSnapshot never called, for a snapshot whose label time.Parse      *)
(* rejects; the count of retained snapshots counts canonical snapshots     *)
(* only; and a foreign snapshot of a source stays where it is.             *)
(***************************************************************************)
ForeignUntouched ==
    /\ \A k \in 1..Len(clean.deleted) : TimeParseOK(LabelOf(clean.deleted[k]))
    /\ pc = "cleanLoop" =>
          clean.saved = Min(clean.retain,
                            Cardinality({m \in CanonIdx(clean.snaps) : m > clean.i}))

ForeignStay ==
    /\ \A argv \in Launched : IsDestroy(argv) => TimeParseOK(LabelOf(LastArg(argv)))
    /\ world' # world =>
          \A d \in SourceDatasets : \A k \in 1..Len(world.snaps[d]) :
              ~TimeParseOK(world.snaps[d][k]) =>
                  Contains(world'.snaps[d], world.snaps[d][k])

C4_ForeignSnapshotsUntouched ==
    /\ []ForeignUntouched
    /\ [][ForeignStay]_vars

\* A destroy was launched for a snapshot older than a foreign one, which the
\* scan has passed and which is still there.
C4_Witness ==
    /\ ~b.dryrun
    /\ pc = "cleanLoop"
    /\ clean.i = 0
    /\ Len(DestroyCalls) >= 1
    /\ \E k \in 2..Len(clean.snaps) : \E j \in 1..(k - 1) :
         /\ ~TimeParseOK(LabelOf(clean.snaps[k]))
         /\ clean.snaps[j] = LastArg(DestroyCalls[1])
         /\ Contains(world.snaps[clean.vol], LabelOf(clean.snaps[k]))

(***************************************************************************)
(* C5: with a count below 1 cleanSnapshots deletes what it deletes with    *)
(* the count 1; and whatever the count, the newest canonical snapshot is   *)
(* never handed to deleteSnapshot and stays on the volume.                 *)
(***************************************************************************)
NewestCanon(L) == CHOOSE k \in CanonIdx(L) : \A m \in CanonIdx(L) : m <= k

C5_RetainBelowOneIsOne ==
    /\ (CleanDone /\ clean.retainArg <= 1) =>
          /\ clean.deleted = DoomedFrom(clean.snaps, 1, Len(clean.snaps))
          /\ ~b.dryrun => DestroysAre(clean.deleted)
    /\ (caller = "cleanSnapshots" /\ CanonIdx(clean.snaps) # {}) =>
          LET newest == clean.snaps[NewestCanon(clean.snaps)]
          IN  /\ \A k \in 1..Len(clean.deleted) : clean.deleted[k] # newest
              /\ \A k \in 1..Len(DestroyCalls) : LastArg(DestroyCalls[k]) # newest
              /\ Contains(world.snaps[Pool], LabelOf(newest))

\* The count 0 on three canonical snapshots: the two older ones were destroyed.
C5_Witness ==
    /\ CleanDone
    /\ ~b.dryrun
    /\ clean.retainArg = 0
    /\ Len(DestroyCalls) = 2
    /\ Len(world.snaps[Pool]) = 1

(***************************************************************************)
(* C6: when both listings succeed, getLatestMatchingSnapshot returns the   *)
(* source snapshot of the greatest position whose label some snapshot of   *)
(* the target carries, and the no-match error exactly when there is none.  *)
(***************************************************************************)
MatchSource == world.snaps[Pool]
MatchTarget == world.snaps[JoinPath(TargetRoot, Pool)]
CommonIdx == {k \in 1..Len(MatchSource) : Contains(MatchTarget, MatchSource[k])}

C6_LatestCommonSnapshot ==
    (pc = "done" /\ caller = "getLatestMatchingSnapshot") =>
        /\ result.err = NoMatch <=> (result.err.op # "listing snapshots" /\ CommonIdx = {})
        /\ (result.err.op # "listing snapshots" /\ CommonIdx # {}) =>
              LET k == CHOOSE n \in CommonIdx : \A m \in CommonIdx : m <= n
              IN  /\ result.err = NoError
                  /\ result.val = SnapshotName(Pool, MatchSource[k])
        /\ result.err # NoError => result.val = EmptyStr

\* Two common labels, the target in another order with a snapshot of its own,
\* and a newest source snapshot the target lacks.
C6_Witness ==
    /\ pc = "done"
    /\ caller = "getLatestMatchingSnapshot"
    /\ MatchSource = <<T(1), T(2), T(3)>>
    /\ MatchTarget = <<ManualLabel, T(2), T(1)>>
    /\ result.err = NoError
    /\ result.val = SnapshotName(Pool, T(2))

(***************************************************************************)
(* C7: when stages of a pipeline fail, the error returned names the        *)
(* failing stage of the lowest index, and once every stage was waited for  *)
(* the lines the last stage wrote are returned with it.                    *)
(***************************************************************************)
FailedStages == {k \in 1..Len(pipe.cmds) : pipe.cmds[k] \in {"exited1", "unstarted"}}
AllWaited == \A k \in 1..Len(pipe.cmds) : pipe.cmds[k] \in {"exited0", "exited1"}

C7_LowestFailingStageReported ==
    (pc = "done" /\ caller = "pipeline" /\ FailedStages # {}) =>
        LET k == CHOOSE n \in FailedStages : \A m \in FailedStages : n <= m
        IN  /\ result.err.err = IF pipe.cmds[k] = "exited1"
                                THEN WaitError(k, ExitStatus)
                                ELSE StartError(k, NotFound)
            /\ AllWaited => result.val = StdoutLines(pipe.stdoutBuf)

\* Of three stages the second and the third failed; the third had written lines.
C7_Witness ==
    /\ pc = "done"
    /\ caller = "pipeline"
    /\ pipe.cmds = <<"exited0", "exited1", "exited1">>
    /\ result.val = <<Str("l1"), Str("l2")>>
    /\ result.err.err = WaitError(2, ExitStatus)

(***************************************************************************)
(* C8: every stage is started before any stage is waited for, and          *)
(* execPipeline returns only when every stage it started has been waited   *)
(* for, also when a later stage fails to start.                            *)
(***************************************************************************)
C8_EveryStartedStageWaited ==
    /\ (\E k \in 1..Len(pipe.cmds) : pipe.cmds[k] \in {"exited0", "exited1"}) =>
          \A k \in 1..Len(pipe.cmds) : pipe.cmds[k] # "new"
    /\ pc = "done" => \A k \in 1..Len(pipe.cmds) : pipe.cmds[k] # "running"

(***************************************************************************)
(* C9: when a stage of the pipeline has no words, at whatever position, no *)
(* process of the pipeline is ever started, and execPipeline returns a     *)
(* configuration error.                                                    *)
(***************************************************************************)
HasEmptyStage == \E k \in 1..Len(pipe.allCmds) : pipe.allCmds[k] = <<>>

C9_EmptyStageStartsNothing ==
    (caller = "pipeline" /\ HasEmptyStage) =>
        /\ calls = <<>>
        /\ \A k \in 1..Len(pipe.cmds) : pipe.cmds[k] = "new"
        /\ (pc = "done" /\ ~b.dryrun) =>
              /\ result.err.err \in {EmptyCommandError, TooFewError}
              /\ result.val = <<>>

\* Three stages, the last of them empty: the error, and nothing was started.
C9_Witness ==
    /\ pc = "done"
    /\ caller = "pipeline"
    /\ ~b.dryrun
    /\ Len(pipe.allCmds) = 3
    /\ pipe.allCmds[1] # <<>>
    /\ pipe.allCmds[2] # <<>>
    /\ pipe.allCmds[3] = <<>>
    /\ result.err.err = EmptyCommandError
    /\ calls = <<>>

(***************************************************************************)
(* C10, as the specification has it: the pipeline executor, given one      *)
(* command, runs it and returns its status, not an error about the number  *)
(* of stages.                                                              *)
(***************************************************************************)
C10_SingleStagePipelineRuns ==
    (pc = "done" /\ caller = "pipeline" /\ ~b.dryrun
        /\ Len(pipe.allCmds) = 1 /\ pipe.allCmds[1] # <<>>) =>
        /\ calls = <<pipe.allCmds[1]>>
        /\ result.err.err # TooFewError

(***************************************************************************)
(* C10, amended: given fewer than two commands execPipeline starts nothing *)
(* and returns the error about the number of commands; one command is run  *)
(* by run (execCmd), which launches it once and returns its lines, its     *)
(* diagnostic and its status.                                              *)
(***************************************************************************)
C10_SingleCommandRunsOutsidePipeline ==
    /\ (pc = "done" /\ caller = "pipeline" /\ ~b.dryrun /\ Len(pipe.allCmds) < 2) =>
          /\ calls = <<>>
          /\ result.val = <<>>
          /\ result.err.err = TooFewError
    /\ (pc = "done" /\ caller = "run" /\ ~b.dryrun) =>
          /\ calls = <<pipe.allCmds[1]>>
          /\ result.val \in {StdoutLines(o) : o \in StdoutBufs}
          /\ result.err.err \in {EmptyStr, ExitStatus}
          /\ result.err.err = EmptyStr => result.err.stderr = EmptyStr
          /\ result.err.err # EmptyStr => result.err.stderr \in {TrimSpace(FailText), ExitStatus}

\* A pipeline of one command was refused.
C10_Witness ==
    /\ pc = "done"
    /\ caller = "pipeline"
    /\ ~b.dryrun
    /\ Len(pipe.allCmds) = 1
    /\ pipe.allCmds[1] # <<>>
    /\ result.err.err = TooFewError


(***************************************************************************)
(* C11: RunBackup takes the sources in the order given: every command      *)
(* launched acts on a dataset of the current source, the loop moves to the *)
(* next source only when cleanSnapshots of the current one returned nil,   *)
(* and the first error ends the run: it is returned and nothing is         *)
(* launched after it.                                                      *)
(***************************************************************************)
\* A dataset of the target by the name it has on the source.
SourceSide(d) ==
    IF HasPrefix(d, TargetRoot \o <<"/">>) THEN SubSeq(d, 3, Len(d)) ELSE d

Under(d, vol) == d = vol \/ HasPrefix(d, vol \o <<"/">>)

\* The dataset a zfs command line acts on.
Operand(argv) == splitSnapshot(LastArg(argv)).vol

InOrderStep ==
    /\ \A argv \in Launched :
          Op(argv) # EmptyStr =>
              /\ frame.i <= Len(sources)
              /\ Under(SourceSide(Operand(argv)), sources[frame.i].vol)
    /\ frame'.i # frame.i =>
          /\ frame'.i = frame.i + 1
          /\ pc \in {"cleanSnapshots", "cleanLoop"}
          /\ pc' = "RunBackup"
          /\ result' = Result0
    /\ result.err = NoError
    /\ result'.err # NoError => pc' = "done" /\ frame'.i = frame.i

C11_SourcesInOrderFailFast ==
    /\ [][InOrderStep]_vars
    /\ [](pc = "done" =>
            IF result.err = NoError THEN frame.i = Len(sources) + 1
            ELSE frame.i <= Len(sources))

\* The first of two different sources was backed up and cleaned, the second failed.
C11_Witness ==
    /\ pc = "done"
    /\ ~b.dryrun
    /\ Len(sources) = 2
    /\ sources[1] # sources[2]
    /\ frame.i = 2
    /\ result.err # NoError
    /\ \E k \in 1..Len(calls) : Op(calls[k]) = Str("receive")


(***************************************************************************)
(* C12: when the target of a filesystem does not exist, the snapshots of   *)
(* neither side are listed for it, the estimate and the transfer have no   *)
(* base, and the pipeline of a run that is no dry run is a send of         *)
(* fs@label, maybe pv, and "receive -F" of the target.                     *)
(***************************************************************************)
\* backupFilesystem is at work on the filesystem Fs.
FsPhase ==
    /\ caller = "RunBackup"
    /\ \/ pc = "backupFilesystem" /\ frame.j <= Len(frame.filesystems)
       \/ pc \in {"getLatestMatchingSnapshot", "matchTarget", "dryrunSingleBackup",
                  "runSingleBackup", "pipeline", "execPipeline", "start"}

IsSnapshotListing(argv) ==
    Op(argv) = Str("list") /\ Contains(argv, Str("snapshot"))

NoBase(argv) == ~Contains(argv, Str("-i"))

FullPipeline(cmds) ==
    /\ Len(cmds) \in {2, 3}
    /\ cmds[1] = b.sourceCmd \o <<Str("send"), Fs \o <<"@">> \o frame.snapName>>
    /\ cmds[Len(cmds)] = b.targetCmd \o <<Str("receive"), Str("-F"), TargetVol>>
    /\ Len(cmds) = 3 => cmds[2][1] = PvPath

AbsentTargetState ==
    (FsPhase /\ TargetVol \notin world.exists) =>
        /\ pc \notin {"getLatestMatchingSnapshot", "matchTarget"}
        /\ frame.startSnap = EmptyStr
        /\ pc \in {"pipeline", "execPipeline", "start"} =>
              ~b.dryrun /\ FullPipeline(pipe.allCmds)

AbsentTargetStep ==
    (FsPhase /\ TargetVol \notin world.exists) =>
        /\ \A argv \in Launched : ~IsSnapshotListing(argv) /\ NoBase(argv)
        /\ pc = "backupFilesystem" => pc' = "dryrunSingleBackup"

NoCommonLabel ==
    /\ TargetVol \in world.exists
    /\ \A k \in 1..Len(world.snaps[Fs]) :
          ~Contains(world.snaps[TargetVol], world.snaps[Fs][k])

NoCommonState ==
    (FsPhase /\ NoCommonLabel) =>
        /\ frame.startSnap = EmptyStr
        /\ pc \in {"pipeline", "execPipeline", "start"} =>
              ~b.dryrun /\ FullPipeline(pipe.allCmds)

NoCommonStep ==
    (FsPhase /\ NoCommonLabel) =>
        /\ pc = "matchTarget" =>
              /\ pc' = "dryrunSingleBackup"
              /\ frame' = frame
              /\ result' = result
        /\ pc = "dryrunSingleBackup" =>
              Launched = {b.sourceCmd \o <<Str("send"), Str("-n"), Str("-P"),
                                           Fs \o <<"@">> \o frame.snapName>>}

ListingFailed ==
    /\ caller = "RunBackup"
    /\ pc \in {"listFilesystems", "getLatestMatchingSnapshot", "matchTarget", "cleanSnapshots"}
    /\ Launched # {}
    /\ faults' < faults

C14_FailedListingFailsTheRun ==
    [][ListingFailed => pc' = "done" /\ result'.err # NoError]_vars


(***************************************************************************)
(* C15: outside dry-run the transfer of a filesystem is reached only with  *)
(* a positive size read from the estimate; an estimate of zero, without a  *)
(* size line, or with a size that is no integer makes RunBackup return an  *)
(* error, and no pipeline is built.                                        *)
(***************************************************************************)
\* The positive integers among the sizes the estimate may print.
GoodSizes == {42}

TransferPhase ==
    /\ caller = "RunBackup"
    /\ pc \in {"runSingleBackup", "pipeline", "execPipeline", "start", "wait", "collect"}

EstimateStep ==
    (caller = "RunBackup" /\ pc = "dryrunSingleBackup" /\ ~b.dryrun) =>
        IF pc' = "runSingleBackup"
        THEN frame'.size \in GoodSizes /\ result' = result
        ELSE /\ pc' = "done"
             /\ result'.err # NoError
             /\ pipe' = Pipe0

C15_BadEstimateFails ==
    /\ [](TransferPhase => ~b.dryrun /\ frame.size \in GoodSizes)
    /\ [][EstimateStep]_vars

\* A run ended on an estimate of size zero: the estimate is the last command.
C15_Witness ==
    /\ ~b.dryrun
    /\ pc = "done"
    /\ result.err = PlainError("backup size 0")
    /\ Op(calls[Len(calls)]) = Str("send")
    /\ Flag(calls[Len(calls)], "-n")
    /\ pipe = Pipe0


(***************************************************************************)
(* C16: in a dry run the estimate never makes backupFilesystem fail:       *)
(* whatever the estimate gave, the step returns nil and the loop of        *)
(* backupSource goes on to the next filesystem.                            *)
(***************************************************************************)
DryEstimateStep ==
    (caller = "RunBackup" /\ pc = "dryrunSingleBackup" /\ b.dryrun) =>
        /\ pc' = "backupFilesystem"
        /\ frame'.j = frame.j + 1
        /\ frame'.filesystems = frame.filesystems
        /\ result' = Result0

C16_DryRunEstimateNeverFails ==
    /\ [][DryEstimateStep]_vars
    /\ [](b.dryrun => result.err.op # "estimating backup size"
                      /\ result.err.err \notin {Str("backup size 0"), Str("size parse error")})

\* A dry run whose estimate for the first of two filesystems failed (its
\* snapshot is not there) and which is now at the second.
C16_Witness ==
    /\ b.dryrun
    /\ pc = "backupFilesystem"
    /\ Len(frame.filesystems) = 2
    /\ frame.j = 2
    /\ ~HasSnapshot(world, frame.filesystems[1], frame.snapName)
    /\ Op(calls[Len(calls)]) = Str("send")


(***************************************************************************)
(* C17: when a destroy fails in the cleanup of a source, RunBackup returns *)
(* the error of that destroy at once: no command follows it, so the older  *)
(* candidates stay, and what the source transferred stays on the target.   *)
(***************************************************************************)
\* This step launched a destroy, and the destroy failed.
DestroyFailed ==
    /\ caller = "RunBackup"
    /\ pc = "cleanLoop"
    /\ \E argv \in Launched : IsDestroy(argv)
    /\ world' = world

CleanupAborted == pc = "done" /\ caller = "RunBackup" /\ result.err.op = "deleting snapshot"

CleanupAbortState ==
    CleanupAborted =>
        LET last == calls[Len(calls)]
            s == splitSnapshot(LastArg(last))
        IN  /\ IsDestroy(last)
            /\ HasSnapshot(world, s.vol, s.snap)
            /\ \A k \in 1..Len(frame.filesystems) :
                  HasSnapshot(world, JoinPath(b.target, frame.filesystems[k]), frame.snapName)

CleanupAbortStep ==
    /\ DestroyFailed => pc' = "done" /\ result'.err.op = "deleting snapshot"
    /\ pc = "done" => calls' = calls /\ world' = world

C17_FailedDestroyAbortsCleanup ==
    /\ []CleanupAbortState
    /\ [][CleanupAbortStep]_vars

\* The first of two destroys failed: both candidates are still on the source.
C17_Witness ==
    /\ CleanupAborted
    /\ Len(DestroyCalls) = 1
    /\ LET s == splitSnapshot(LastArg(DestroyCalls[1]))
       IN  \E k \in 2..Len(world.snaps[s.vol]) :
              /\ world.snaps[s.vol][k] = s.snap
              /\ TimeParseOK(world.snaps[s.vol][k - 1])


(***************************************************************************)
(* C18, as the specification has it: with retain 2 and five canonical      *)
(* snapshots the three oldest are destroyed, oldest first; and in general  *)
(* the destroys come in the order of the list, oldest to newest.           *)
(***************************************************************************)
\* The position in the listing of the snapshot a destroy is for.
PositionOf(argv) == CHOOSE k \in 1..Len(clean.snaps) : clean.snaps[k] = LastArg(argv)

DestroyedSnapshots == [k \in 1..Len(DestroyCalls) |-> LabelOf(LastArg(DestroyCalls[k]))]

FiveCase ==
    /\ CleanDone
    /\ ~b.dryrun
    /\ clean.retainArg = 2
    /\ clean.snaps = [k \in 1..5 |-> Pool \o <<"@">> \o FiveCanonical[k]]

C18_DestroysOldestFirst ==
    /\ FiveCase => DestroyedSnapshots = <<T(1), T(2), T(3)>>
    /\ caller = "cleanSnapshots" =>
          \A j, k \in 1..Len(DestroyCalls) :
              j < k => PositionOf(DestroyCalls[j]) < PositionOf(DestroyCalls[k])

(***************************************************************************)
(* C18, amended: with retain 2 and five canonical snapshots the three      *)
(* oldest are destroyed, the newest of them first; and in general the      *)
(* destroys come in the order of the scan, newest to oldest.               *)
(***************************************************************************)
C18_DestroysNewestFirst ==
    /\ FiveCase => DestroyedSnapshots = <<T(3), T(2), T(1)>>
    /\ caller = "cleanSnapshots" =>
          \A j, k \in 1..Len(DestroyCalls) :
              j < k => PositionOf(DestroyCalls[j]) > PositionOf(DestroyCalls[k])

\* Five canonical snapshots, retain 2, three destroys, and two snapshots left.
C18_Witness ==
    /\ FiveCase
    /\ Len(DestroyCalls) = 3
    /\ world.snaps[Pool] = <<T(4), T(5)>>


(***************************************************************************)
(* C20: every zfs command line carries the command prefix that the         *)
(* classification of its dataset selects: the target prefix if and only if *)
(* the dataset's path starts with the target root and a "/", the source    *)
(* prefix otherwise; also for a source volume under the target root.       *)
(***************************************************************************)
ClassifiedTarget(d) == HasPrefix(d, TargetRoot \o <<"/">>)

PrefixOf(argv) == SubSeq(argv, 1, Len(argv) - Len(CmdArgs(argv)))

PrefixStep ==
    \A argv \in Launched :
        Op(argv) # EmptyStr =>
            PrefixOf(argv) =
                IF ClassifiedTarget(Operand(argv)) THEN b.targetCmd ELSE b.sourceCmd

C20_PrefixFollowsClassification == [][PrefixStep]_vars


(***************************************************************************)
(* C19: two dry runs of RunBackup on the same sources, with the pools      *)
(* unchanged between them, log the same decisions and the same estimated   *)
(* sizes, and neither starts a command that changes a pool.                *)
(***************************************************************************)
\* A logged line without the label the clock gave the snapshot to be taken.
Decided(line) ==
    IF "snapshot" \in DOMAIN line THEN [line EXCEPT !.snapshot = EmptyStr]
    ELSE IF "to" \in DOMAIN line THEN [line EXCEPT !.to = splitSnapshot(@).vol]
    ELSE line

Decisions(lines) == [k \in 1..Len(lines) |-> Decided(lines[k])]

BothRunsDone == pc = "done" /\ Len(slog) = 2

C19_DryRunTwiceSame ==
    /\ BothRunsDone => Decisions(slog[1]) = Decisions(slog[2])
    /\ b.dryrun => \A k \in 1..Len(calls) : ~Mutating(calls[k])


(***************************************************************************)
(* C21: NewBackup with an empty target root, an empty source command or an *)
(* empty target command returns an error and no session, so that a session *)
(* never has one of them empty and nothing is launched; with valid         *)
(* arguments it returns the session as configured, whose command prefixes  *)
(* are <<zfs>> unless an option set them.                                  *)
(***************************************************************************)
\* The command the last option named name gives, <<zfs>> if there is none.
ConfiguredCmd(opts, name) ==
    LET at == {k \in 1..Len(opts) : opts[k].opt = name}
    IN  IF at = {} THEN <<Zfs>>
        ELSE opts[CHOOSE k \in at : \A m \in at : m <= k].cmd

NewBackupStep ==
    pc = "NewBackup" =>
        LET sourceCmd == ConfiguredCmd(frame.opts, "WithSourceCommandOption")
            targetCmd == ConfiguredCmd(frame.opts, "WithTargetCommandOption")
        IN  /\ calls' = <<>>
            /\ IF frame.target = EmptyStr \/ sourceCmd = <<>> \/ targetCmd = <<>>
               THEN b' = NilBackup /\ result'.err # NoError
               ELSE /\ result'.err = NoError
                    /\ b' = [target |-> frame.target,
                             dryrun |-> \E k \in 1..Len(frame.opts) :
                                            frame.opts[k].opt = "WithDryRunOption",
                             sourceCmd |-> sourceCmd, targetCmd |-> targetCmd]

ValidSession ==
    b # NilBackup => b.target # EmptyStr /\ b.sourceCmd # <<>> /\ b.targetCmd # <<>>

C21_NewBackupRejectsEmpty == []ValidSession /\ [][NewBackupStep]_vars

\* NewBackup has refused an empty source command given with a good target.
C21_Witness ==
    /\ caller = "NewBackup"
    /\ pc = "done"
    /\ frame.target = TargetRoot
    /\ ConfiguredCmd(frame.opts, "WithSourceCommandOption") = <<>>
    /\ b = NilBackup
    /\ result.err = PlainError("source command cannot be empty")


(***************************************************************************)
(* C22: at most one transfer pipeline is active at any moment of a run.    *)
(* A stage that runs stays in the pipeline at hand until it has exited, so *)
(* no other pipeline takes its place meanwhile; the first stage of a       *)
(* pipeline starts when no stage of it, or of one before, runs; and the    *)
(* stages of one pipeline run together: all run when the first is waited   *)
(* for.                                                                    *)
(***************************************************************************)
ActiveStages == {k \in 1..Len(pipe.cmds) : pipe.cmds[k] = "running"}

StagesPersist ==
    \A k \in ActiveStages :
        /\ pipe'.allCmds = pipe.allCmds
        /\ k \in 1..Len(pipe'.cmds)
        /\ pipe'.cmds[k] \in {"running", "exited0", "exited1"}

FirstStartAlone ==
    pc = "start" /\ pipe.i = 1 /\ Launched # {} =>
        \A k \in 1..Len(pipe.cmds) : pipe.cmds[k] = "new"

FirstWaitAllRun ==
    pc = "wait" /\ pipe.i = 1 => ActiveStages = 1..Len(pipe.cmds)

C22_OnePipelineAtATime ==
    [][caller = "RunBackup" => StagesPersist /\ FirstStartAlone /\ FirstWaitAllRun]_vars

\* The pipeline of a second filesystem runs, all its stages together, after
\* the pipeline of the first has ended.
C22_Witness ==
    /\ caller = "RunBackup"
    /\ pc = "wait"
    /\ pipe.i = 1
    /\ ActiveStages = 1..Len(pipe.cmds)
    /\ Len(pipe.cmds) >= 2
    /\ \E k \in 1..(Len(calls) - Len(pipe.cmds)) : Op(calls[k]) = Str("receive")


(***************************************************************************)
(* C23: the session configuration is as NewBackup made it after any        *)
(* sequence of operations.  Building a command neither writes to the array *)
(* of a stored prefix nor returns a slice of it: the stored prefixes keep  *)
(* their elements, every command built is the stored prefix followed by    *)
(* the arguments, and it keeps its elements when later commands are built. *)
(***************************************************************************)
PrefixArrays == {heap.sourceCmd.arr, heap.targetCmd.arr} \ {0}

StoredPrefixes ==
    caller = "buildCommand" =>
        /\ Contents(heap, heap.sourceCmd) = b.sourceCmd
        /\ Contents(heap, heap.targetCmd) = b.targetCmd
        /\ \A k \in 1..Len(heap.built) : heap.built[k].arr \notin PrefixArrays

ConfigurationStep ==
    /\ b' = b
    /\ heap'.sourceCmd = heap.sourceCmd
    /\ heap'.targetCmd = heap.targetCmd
    /\ \A a \in PrefixArrays : heap'.arrays[a] = heap.arrays[a]
    /\ \A k \in 1..Len(heap.built) :
          Contents(heap', heap'.built[k]) = Contents(heap, heap.built[k])
    /\ Len(heap'.built) > Len(heap.built) =>
          Contents(heap', heap'.built[Len(heap'.built)]) =
              (IF frame'.isTarget THEN b.targetCmd ELSE b.sourceCmd) \o frame'.args

C23_ConfigurationReadOnly == []StoredPrefixes /\ [][pc # "NewBackup" => ConfigurationStep]_vars

\* Two commands were built from a source prefix that has spare capacity.
C23_Witness ==
    /\ caller = "buildCommand"
    /\ Len(heap.built) = 2
    /\ heap.sourceCmd.cap > heap.sourceCmd.len + 1
    /\ b.sourceCmd # b.targetCmd
    /\ \A k \in 1..2 : HasPrefix(Contents(heap, heap.built[k]), b.sourceCmd)
    /\ Contents(heap, heap.built[1]) # Contents(heap, heap.built[2])


(***************************************************************************)
(* C24: ParseSource sets recurse exactly when the string ends with the     *)
(* marker "/...", takes one marker off the end for the volume, and rejects *)
(* a string whose volume is empty; String() of the source of an accepted   *)
(* string is that string.                                                  *)
(***************************************************************************)
EndsWithMarker(s) ==
    /\ Len(s) >= 4
    /\ s[Len(s) - 3] = "/"
    /\ \A k \in (Len(s) - 2)..Len(s) : s[k] = "."

VolumePart(s) == IF EndsWithMarker(s) THEN SubSeq(s, 1, Len(s) - 4) ELSE s

ParseSourceStep ==
    pc = "ParseSource" =>
        IF VolumePart(frame.s) = EmptyStr
        THEN pc' = "done" /\ result'.err # NoError
        ELSE /\ result'.err = NoError
             /\ frame'.src = [vol |-> VolumePart(frame.s), recurse |-> EndsWithMarker(frame.s)]

RoundTrip ==
    caller = "ParseSource" /\ pc = "done" /\ result.err = NoError => result.val = frame.s

C24_ParseSourceRoundTrip == []RoundTrip /\ [][ParseSourceStep]_vars

\* A string that ends with two markers went through ParseSource and String.
C24_Witness ==
    /\ caller = "ParseSource"
    /\ pc = "done"
    /\ result.err = NoError
    /\ frame.src.recurse
    /\ EndsWithMarker(frame.src.vol)
    /\ result.val = frame.s


(***************************************************************************)
(* C25: the diagnostic string execPipeline returns is empty, with no       *)
(* error, when every stage succeeded, whatever the last stage wrote to its *)
(* standard error; otherwise it is what the last stage wrote there, if     *)
(* that is not empty, and the text of the error of the first failing stage *)
(* if it is.                                                               *)
(***************************************************************************)
\* The stages that did not succeed, and the error of stage k among them.
FailingStages == {k \in 1..Len(pipe.cmds) : pipe.cmds[k] # "exited0"}

StageErrorText(k) ==
    IF pipe.cmds[k] = "exited1" THEN WaitError(k, ExitStatus) ELSE StartError(k, NotFound)

FirstFailing == CHOOSE k \in FailingStages : \A m \in FailingStages : k <= m

PipelineReturned == caller = "pipeline" /\ pc = "done" /\ Len(pipe.cmds) > 0

C25_PipelineDiagnostic ==
    PipelineReturned =>
        IF FailingStages = {}
        THEN result.err.stderr = EmptyStr /\ result.err.err = EmptyStr
        ELSE /\ result.err.err # EmptyStr
             /\ result.err.stderr =
                    IF TrimSpace(pipe.stderrBuf) # EmptyStr
                    THEN TrimSpace(pipe.stderrBuf)
                    ELSE StageErrorText(FirstFailing)


(***************************************************************************)
(* C26: the pipeline built for a filesystem has two or three stages.  The  *)
(* first is the source command with "send", "-i base" exactly when a base  *)
(* was found, and fs@label; the last is the target command with            *)
(* "receive -F target/fs"; "pv -s size" stands between them exactly when   *)
(* pv is found and the size is positive; without it the two stages run as  *)
(* a pipeline and no error comes of it.                                    *)
(***************************************************************************)
PipelineBuilt ==
    /\ caller = "RunBackup"
    /\ pc \in {"pipeline", "execPipeline", "start", "wait", "collect"}

ExpectedSend ==
    b.sourceCmd \o <<Str("send")>>
        \o (IF frame.startSnap # EmptyStr THEN <<Str("-i"), frame.startSnap>> ELSE <<>>)
        \o <<Fs \o <<"@">> \o frame.snapName>>

ExpectedReceive == b.targetCmd \o <<Str("receive"), Str("-F"), b.target \o <<"/">> \o Fs>>

WithProgress == world.pv /\ frame.size > 0

C26_TransferPipelineShape ==
    /\ PipelineBuilt =>
          LET cmds == pipe.allCmds
          IN  /\ Len(cmds) = IF WithProgress THEN 3 ELSE 2
              /\ cmds[1] = ExpectedSend
              /\ cmds[Len(cmds)] = ExpectedReceive
              /\ WithProgress => cmds[2] = <<PvPath, Str("-s"), FormatInt(frame.size)>>
              /\ pc \in {"start", "wait", "collect"} => Len(pipe.cmds) = Len(cmds)
    /\ caller = "RunBackup" => result.err.err \notin {TooFewError, EmptyCommandError}

\* An incremental transfer without pv: both stages have run and succeeded.
C26_Witness ==
    /\ PipelineBuilt
    /\ pc = "collect"
    /\ ~world.pv
    /\ frame.startSnap # EmptyStr
    /\ Len(pipe.allCmds) = 2
    /\ \A k \in 1..2 : pipe.cmds[k] = "exited0"


(***************************************************************************)
(* C27: a source gets one label, made when its snapshot is taken, and all  *)
(* its filesystems are sent under that label; the filesystems processed    *)
(* are those of the recursive listing if the source is recursive and the   *)
(* source volume alone otherwise, each in turn; and "-r" is given to       *)
(* "snapshot" and to "destroy" exactly when the source is recursive.       *)
(***************************************************************************)
SameSource == frame'.i = frame.i

ListedFilesystems(vol, list) ==
    /\ Len(list) > 0
    /\ list[1] = vol
    /\ {list[k] : k \in 1..Len(list)} = {d \in world.exists : Under(d, vol)}
    /\ \A j, k \in 1..Len(list) : j # k => list[j] # list[k]

OneLabelStep ==
    /\ (SameSource /\ frame'.snapName # frame.snapName) =>
          pc = "RunBackup" /\ frame'.snapName = TimeFormat(now)
    /\ \A argv \in Launched :
          /\ Op(argv) = Str("snapshot") => LabelOf(LastArg(argv)) = TimeFormat(now)
          /\ Op(argv) = Str("send") =>
                /\ frame.j <= Len(frame.filesystems)
                /\ LastArg(argv) = frame.filesystems[frame.j] \o <<"@">> \o frame.snapName

FilesystemsStep ==
    /\ (SameSource /\ frame'.filesystems # frame.filesystems) =>
          /\ pc = "listFilesystems"
          /\ IF Src.recurse THEN ListedFilesystems(Src.vol, frame'.filesystems)
             ELSE frame'.filesystems = <<Src.vol>>
    /\ (SameSource /\ frame'.j # frame.j) =>
          \/ pc = "listFilesystems" /\ frame'.j = 1
          \/ pc \in {"dryrunSingleBackup", "collect"} /\ frame'.j = frame.j + 1
    /\ pc' = "cleanSnapshots" => pc = "backupFilesystem" /\ frame.j = Len(frame.filesystems) + 1

RecursionFlagStep ==
    \A argv \in Launched :
        Op(argv) \in {Str("snapshot"), Str("destroy")} =>
            /\ Operand(argv) = Src.vol
            /\ Flag(argv, "-r") <=> Src.recurse

C27_OneLabelPerSource ==
    [][(caller = "RunBackup" /\ frame.i <= Len(sources)) =>
           OneLabelStep /\ FilesystemsStep /\ RecursionFlagStep]_vars

\* A recursive source with two filesystems, both sent under the one label,
\* has had a snapshot destroyed with -r.
C27_Witness ==
    /\ caller = "RunBackup"
    /\ pc = "cleanLoop"
    /\ Src.recurse
    /\ Len(frame.filesystems) = 2
    /\ frame.j = 3
    /\ \E k \in 1..Len(calls) : Op(calls[k]) = Str("destroy") /\ Flag(calls[k], "-r")
    /\ \A f \in 1..2 : \E k \in 1..Len(calls) :
          /\ Op(calls[k]) = Str("send")
          /\ LastArg(calls[k]) = frame.filesystems[f] \o <<"@">> \o frame.snapName


(***************************************************************************)
(* C28, as the specification has it: when the estimate or the transfer of  *)
(* a filesystem fails, the run ends there: the remaining filesystems of    *)
(* the source are not processed, no destroy is launched for the source,    *)
(* and the snapshot taken for the source stays.  Cleanup begins only after *)
(* the last filesystem.                                                    *)
(***************************************************************************)
\* The step is an estimate that failed: in a dry run the line logged has no
\* size, otherwise the transfer does not follow.
EstimateFailed ==
    /\ pc = "dryrunSingleBackup"
    /\ IF b.dryrun
       THEN LET lines == slog'[Len(slog')] IN lines[Len(lines)].size = EmptyStr
       ELSE pc' # "runSingleBackup"

\* The step is the end of a pipeline in which a stage failed, or a stage
\* that does not start.
TransferFailed ==
    \/ pc = "collect" /\ Len(pipe.errs) > 0
    \/ pc = "start" /\ faults' < faults

SourceAbandoned ==
    /\ pc' = "done"
    /\ result'.err # NoError
    /\ frame' = frame

CleanupAfterLastFilesystem ==
    /\ pc' = "cleanSnapshots" => pc = "backupFilesystem" /\ frame.j = Len(frame.filesystems) + 1
    /\ \A argv \in Launched : Op(argv) = Str("destroy") => pc = "cleanLoop"

C28_FailedFilesystemStopsSource ==
    [][caller = "RunBackup" =>
           /\ (EstimateFailed \/ TransferFailed) => SourceAbandoned
           /\ CleanupAfterLastFilesystem]_vars

(***************************************************************************)
(* C28, amended: in a run that is not a dry run, a failed estimate or      *)
(* transfer of a filesystem ends the run there, with the snapshot of the   *)
(* source in place, and cleanup, with its destroys, begins only after the  *)
(* last filesystem.  In a dry run a failed estimate is passed over: the    *)
(* next filesystem follows.                                                *)
(***************************************************************************)
C28_FailedFilesystemStopsRealRun ==
    [][caller = "RunBackup" =>
           /\ (~b.dryrun /\ (EstimateFailed \/ TransferFailed)) =>
                 /\ SourceAbandoned
                 /\ HasSnapshot(world', Src.vol, frame.snapName)
           /\ (b.dryrun /\ EstimateFailed) =>
                 /\ pc' = "backupFilesystem"
                 /\ frame'.j = frame.j + 1
                 /\ result' = result
           /\ CleanupAfterLastFilesystem]_vars

\* The transfer of the first of two filesystems has failed and the run is
\* over: the second was not touched, and the snapshot of the source stays.
C28_Witness ==
    /\ caller = "RunBackup"
    /\ ~b.dryrun
    /\ pc = "done"
    /\ result.err.op = "during backup"
    /\ Len(frame.filesystems) = 2
    /\ frame.j = 1
    /\ HasSnapshot(world, Src.vol, frame.snapName)
    /\ \A k \in 1..Len(calls) : Op(calls[k]) # Str("destroy")

(***************************************************************************)
(* C29: a pipeline of stages each of which terminates once its input is at *)
(* end-of-file or its reader has gone away eventually returns, also when a *)
(* downstream stage exits while an upstream stage is still writing.        *)
(***************************************************************************)
C29_PipelineReturns == <>(pc = "done")

(***************************************************************************)
(* C30: when backupSource has succeeded in a run that is not a dry run,    *)
(* the snapshot it created is still on the source volume and on every      *)
(* filesystem it processed, its label is on the target of each of them,    *)
(* and the matcher of the next run finds it as the common snapshot.        *)
(***************************************************************************)
\* What listSnapshots(vol) returns in world w when the listing succeeds.
SnapshotsListed(w, vol) ==
    StdoutLines(CHOOSE buf \in ZfsListSnapshots(w, ListSnapshotsArgs(vol)) : TRUE)

\* backupSource returns nil to the loop of RunBackup in this step.
SourceSucceeds ==
    /\ caller = "RunBackup"
    /\ ~b.dryrun
    /\ pc # "RunBackup"
    /\ pc' = "RunBackup"

CommonSnapshotLeft(w, fs, label) ==
    LET target == JoinPath(b.target, fs)
    IN  /\ HasSnapshot(w, fs, label)
        /\ HasSnapshot(w, target, label)
        /\ LatestMatching(SnapshotsListed(w, fs), SnapshotsListed(w, target), target)
              = [snap |-> SnapshotName(fs, label), err |-> NoError]

C30_NewSnapshotSurvives ==
    [][SourceSucceeds =>
           /\ HasSnapshot(world', Src.vol, frame.snapName)
           /\ \A k \in 1..Len(frame.filesystems) :
                 CommonSnapshotLeft(world', frame.filesystems[k], frame.snapName)]_vars

\* The first source, with two filesystems, is done and its cleanup destroyed
\* a snapshot: the newest snapshot of the source is on both targets.
C30_Witness ==
    /\ caller = "RunBackup"
    /\ ~b.dryrun
    /\ pc = "RunBackup"
    /\ frame.i = 2
    /\ sources[1].recurse
    /\ \E k \in 1..Len(calls) : Op(calls[k]) = Str("destroy")
    /\ LET snaps == world.snaps[sources[1].vol]
           label == snaps[Len(snaps)]
       IN  /\ \E k \in 1..Len(calls) :
                Op(calls[k]) = Str("snapshot")
                   /\ LastArg(calls[k]) = SnapshotName(sources[1].vol, label)
           /\ \A fs \in {Pool, Child} : CommonSnapshotLeft(world, fs, label)

(***************************************************************************)
(* C31: every incremental send that backupFilesystem issues, estimate or   *)
(* transfer, has as its base a snapshot of the filesystem being processed  *)
(* whose label is on the target of that filesystem, and the base is never  *)
(* the end of the range, the snapshot named after the label of this run.   *)
(***************************************************************************)
IncrementalSend(argv) == Op(argv) = Str("send") /\ Flag(argv, "-i")

BaseOf(argv) == ArgAfter(argv, "-i")

C31_IncrementalBaseDistinct ==
    [][caller = "RunBackup" =>
          \A argv \in Launched :
             IncrementalSend(argv) =>
                /\ LastArg(argv) = SnapshotName(Fs, frame.snapName)
                /\ splitSnapshot(BaseOf(argv)).vol = Fs
                /\ HasSnapshot(world, JoinPath(b.target, Fs), splitSnapshot(BaseOf(argv)).snap)
                /\ BaseOf(argv) # LastArg(argv)]_vars

(***************************************************************************)
(* C32: every destroy launched during a run names a snapshot that the      *)
(* listing of the declared volume of the source being processed returned,  *)
(* and none names a snapshot of the target dataset of a filesystem of      *)
(* that source.                                                            *)
(***************************************************************************)
DestroyLaunched == {argv \in Launched : Op(argv) = Str("destroy")}

\* The target datasets of the filesystems of the source being processed.
TargetsOfSource == {JoinPath(b.target, frame.filesystems[k]) : k \in 1..Len(frame.filesystems)}

=============================================================================
